---- MODULE Spec2Model ----
(***************************************************************************)
(* Model of the LumosMark (LMM) parsing engine, lmm.rs/src/parser.rs.      *)
(*                                                                         *)
(* A source text is a sequence of byte cells.  An ASCII character is one   *)
(* cell holding the character; a character that cannot be written in a    *)
(* string here is a cell named by its code point, "U+0B" for the vertical  *)
(* tab.  A multi-byte character is its lead cell, named by its code point, *)
(* followed by one cell for each continuation byte, named by the byte      *)
(* ("U+E9", "xA9" for the bytes C3 A9), so that sequence positions are     *)
(* byte offsets as in the Rust code.  Offsets are 0-based as in the code;  *)
(* Slice(s, a, b) is &s[a..b].  Option<T> is a sequence of length at most  *)
(* one.                                                                    *)
(*                                                                         *)
(* The renderers of lmm.rs/src/backend.rs are operators on a Document; a   *)
(* rendered String is the sequence of its byte cells.                      *)
(***************************************************************************)
EXTENDS Integers, Sequences, FiniteSets, TLC

VARIABLES input, options, idx, line_start_idx, pos, diagnostics,
          stack, pc, raw_lines, document, markdown, html,
          notifications, handlers, documents, published, col

\* the state of the editor server: the notifications not yet dispatched, the
\* handlers in flight, Backend.documents, what the client was sent, and the
\* column of the parser's Position that the field `col` read by main.rs is in
\* the build (None where no server is built)
server == <<notifications, handlers, documents, published, col>>

vars == <<input, options, idx, line_start_idx, pos, diagnostics,
          stack, pc, raw_lines, document, markdown, html,
          notifications, handlers, documents, published, col>>

\* ------------------------------------------------------------------ bounds
MaxLines == 3

\* ------------------------------------------------------------- Option<T>
None == <<>>
Some(x) == <<x>>
Unwrap(o) == o[1]

\* ------------------------------------------------------------ characters
\* the continuation bytes of the multi-byte characters below
Cont == {"x82", "x83", "x84", "x85", "x9D", "x9E", "xA9", "xB0"}
\* U+00E9, bytes C3 A9
E2 == "U+E9"
\* U+1D11E, bytes F0 9D 84 9E
G4 == "U+1D11E"

\* char::len_utf8; the characters U+0080..U+00FF take two bytes
Utf8Len(ch) ==
  IF ch \in {E2, "U+82", "U+83", "U+84", "U+85", "U+9D", "U+9E", "U+A9",
             "U+B0", "U+C2", "U+C3", "U+F0"} THEN 2
  ELSE IF ch = G4 THEN 4 ELSE 1

Utf16Len(ch) == IF ch = G4 THEN 2 ELSE 1

\* char::is_whitespace (White_Space) on the characters of the model: space,
\* tab, line feed, carriage return, form feed, vertical tab, next line
WhiteSpace == {" ", "\t", "\n", "\r", "\f", "U+0B", "U+85"}

AsciiAlnum ==
  {"a", "b", "c", "d", "e", "f", "g", "h", "i", "j", "k", "l", "m",
   "n", "o", "p", "q", "r", "s", "t", "u", "v", "w", "x", "y", "z",
   "A", "B", "C", "D", "E", "F", "G", "H", "I", "J", "K", "L", "M",
   "N", "O", "P", "Q", "R", "S", "T", "U", "V", "W", "X", "Y", "Z",
   "0", "1", "2", "3", "4", "5", "6", "7", "8", "9"}

\* --------------------------------------------------------- str primitives
Slice(s, a, b) == SubSeq(s, a + 1, b)

SetMin(S) == CHOOSE m \in S : \A n \in S : m <= n

StartsWith(s, p) == Len(s) >= Len(p) /\ SubSeq(s, 1, Len(p)) = p

\* str::find: byte offset of the first occurrence of p in s
Find(s, p) ==
  LET hits == {i \in 0..(Len(s) - Len(p)) : Slice(s, i, i + Len(p)) = p}
  IN IF hits = {} THEN None ELSE Some(SetMin(hits))

RECURSIVE TrimStart(_)
TrimStart(s) ==
  IF s # <<>> /\ Head(s) \in WhiteSpace
  THEN TrimStart(SubSeq(s, Utf8Len(Head(s)) + 1, Len(s))) ELSE s

RECURSIVE TrimEnd(_)
TrimEnd(s) ==
  IF s # <<>> /\ s[Len(s)] \in WhiteSpace
  THEN TrimEnd(SubSeq(s, 1, Len(s) - 1))
  ELSE IF Len(s) >= 2 /\ s[Len(s) - 1] \in WhiteSpace
          /\ Utf8Len(s[Len(s) - 1]) = 2
  THEN TrimEnd(SubSeq(s, 1, Len(s) - 2)) ELSE s

Trim(s) == TrimEnd(TrimStart(s))

\* str::split_once(ch)
SplitOnce(s, ch) ==
  LET at == Find(s, <<ch>>)
  IN IF at = None THEN None
     ELSE Some([left |-> Slice(s, 0, Unwrap(at)),
                right |-> Slice(s, Unwrap(at) + 1, Len(s))])

\* ------------------------------------------------------- Position / Span
Position(line, col8, col16, col32) ==
  [line |-> line, col8 |-> col8, col16 |-> col16, col32 |-> col32]

Span(start, end) == [start |-> start, end |-> end]

advance_position(p, ch) ==
  IF ch = "\n" THEN Position(p.line + 1, 0, 0, 0)
  ELSE Position(p.line, p.col8 + Utf8Len(ch), p.col16 + Utf16Len(ch),
                p.col32 + 1)

RECURSIVE CharCols(_)
CharCols(st) ==
  IF st.prefix = <<>> THEN st.p
  ELSE IF Head(st.prefix) \in Cont
  THEN CharCols([prefix |-> Tail(st.prefix), p |-> st.p])
  ELSE CharCols([prefix |-> Tail(st.prefix),
                 p |-> Position(st.p.line,
                                st.p.col8 + Utf8Len(Head(st.prefix)),
                                st.p.col16 + Utf16Len(Head(st.prefix)),
                                st.p.col32 + 1)])

position_for_line_offset(line_index, line, byte_offset) ==
  CharCols([prefix |-> Slice(line, 0, byte_offset),
            p |-> Position(line_index, 0, 0, 0)])

span_at_line_start(line_index) ==
  Span(Position(line_index, 0, 0, 0), Position(line_index, 0, 0, 0))

line_span_from_line(line_index, line) ==
  Span(Position(line_index, 0, 0, 0),
       position_for_line_offset(line_index, line, Len(line)))

span_for_line_offsets(line_index, line, start, end) ==
  Span(position_for_line_offset(line_index, line, start),
       position_for_line_offset(line_index, line, end))

saturating_sub(a, b) == IF a >= b THEN a - b ELSE 0

Diagnostic(span, severity, message) ==
  [span |-> span, severity |-> severity, message |-> message]

\* the message of parser.rs line 277; a character outside ASCII is written
\* as its code point, \uXXXX
MissingSpaceMessage ==
  "LMM \\u683C\\u5F0F\\u89C4\\u8303\\uFF1A\\u6807\\u8BB0\\u540D\\u79F0\\u4E0E\\u5DE6\\u5927\\u62EC\\u53F7\\u4E4B\\u95F4\\u5FC5\\u987B\\u6709\\u4E00\\u4E2A\\u7A7A\\u683C\\u3002\\u5EFA\\u8BAE\\u6539\\u4E3A '@name {'"

\* ------------------------------------------------------- line predicates
is_comment_line(line) ==
  LET trimmed == TrimStart(line)
  IN IF StartsWith(trimmed, <<"!", "!">>) THEN FALSE
     ELSE StartsWith(trimmed, <<"!">>)

is_dollar_line(line) == Trim(line) = <<"$">>

RECURSIVE Pluses(_)
Pluses(n) == IF n = 0 THEN <<>> ELSE <<"+">> \o Pluses(n - 1)

block_close_delim(plus_count) == <<"}">> \o Pluses(plus_count)

find_block_header_start(line) ==
  LET trimmed == TrimStart(line)
      at_col == Len(line) - Len(trimmed)
  IN IF StartsWith(trimmed, <<"@">>) THEN Some(<<at_col, at_col>>) ELSE None

\* ------------------------------------------------------------- unescape
RECURSIVE unescape_text(_)
unescape_text(s) ==
  IF s = <<>> THEN <<>>
  ELSE IF Len(s) >= 2 /\ s[1] = s[2] /\ s[1] \in {"@", "#", "{"}
       THEN <<s[1]>> \o unescape_text(SubSeq(s, 3, Len(s)))
       ELSE <<s[1]>> \o unescape_text(Tail(s))

\* ------------------------------------------------------------ text lines
\* a run measured with every tab counted as one space
RECURSIVE IndentRun_Unweighted(_, _)
IndentRun_Unweighted(st, opts) ==
  IF st.s # <<>> /\ Head(st.s) \in {" ", "\t"}
  THEN IndentRun_Unweighted([s |-> Tail(st.s),
                             indent |-> st.indent + opts.space_width,
                             skip |-> st.skip + 1], opts)
  ELSE [indent |-> st.indent, skip |-> st.skip]

\* the leading run of spaces and tabs: weighted indent and bytes skipped
RECURSIVE IndentRun(_, _)
IndentRun(st, opts) ==
  IF st.s # <<>> /\ Head(st.s) = " "
  THEN IndentRun([s |-> Tail(st.s),
                  indent |-> st.indent + opts.space_width,
                  skip |-> st.skip + 1], opts)
  ELSE IF st.s # <<>> /\ Head(st.s) = "\t"
  THEN IndentRun([s |-> Tail(st.s),
                  indent |-> st.indent + opts.tab_width,
                  skip |-> st.skip + 1], opts)
  ELSE [indent |-> st.indent, skip |-> st.skip]

LineBuf(indent, value, span, is_comment) ==
  [indent |-> indent, value |-> value, span |-> span,
   is_comment |-> is_comment]

\* a segment from which no leading run is stripped
SegmentLead_KeepsRun(start, segment, opts) == [indent |-> 0, skip |-> 0]

\* parser.rs lines 520-535: the indent run is measured at column 0 only
SegmentLead(start, segment, opts) ==
  IF start = 0
  THEN IndentRun([s |-> segment, indent |-> 0, skip |-> 0], opts)
  ELSE [indent |-> 0, skip |-> 0]

\* parser.rs lines 538-541: a leading `!!` at column 0 stands for `!`
SegmentValue(start, raw) ==
  IF start = 0 /\ StartsWith(raw, <<"!", "!">>)
  THEN <<"!">> \o SubSeq(raw, 3, Len(raw))
  ELSE raw

\* parser.rs lines 543-554
SegmentLineBuf(line, line_index, value_start, indent, value) ==
  IF value = <<>> THEN None
  ELSE Some(LineBuf(indent, value,
                    span_for_line_offsets(line_index, line, value_start,
                                          value_start + Len(value)),
                    FALSE))

SegmentAfterIndent(line, line_index, start, segment, lead) ==
  SegmentLineBuf(line, line_index, start + lead.skip, lead.indent,
                 SegmentValue(start, SubSeq(segment, lead.skip + 1,
                                            Len(segment))))

parse_text_segment(line, line_index, start, end, opts) ==
  IF start >= end THEN None
  ELSE SegmentAfterIndent(line, line_index, start, Slice(line, start, end),
                          SegmentLead(start, Slice(line, start, end), opts))

\* parser.rs line 575
CommentRest(after_indent) ==
  IF StartsWith(after_indent, <<"!">>) THEN Tail(after_indent) ELSE <<>>

\* parser.rs lines 577-586
CommentLineBuf(line, line_index, lead, rest, trimmed) ==
  Some(LineBuf(lead.indent, trimmed,
               span_for_line_offsets(
                 line_index, line,
                 lead.skip + 1 + saturating_sub(Len(rest), Len(trimmed)),
                 lead.skip + 1 + saturating_sub(Len(rest), Len(trimmed))
                   + Len(trimmed)),
               TRUE))

CommentAfterIndent(line, line_index, lead, rest) ==
  CommentLineBuf(line, line_index, lead, rest, TrimStart(rest))

CommentWithLead(line, line_index, lead) ==
  CommentAfterIndent(line, line_index, lead,
                     CommentRest(SubSeq(line, lead.skip + 1, Len(line))))

parse_comment_line(line, line_index, opts) ==
  IF ~is_comment_line(line) THEN None
  ELSE CommentWithLead(line, line_index,
                       IndentRun([s |-> line, indent |-> 0, skip |-> 0],
                                 opts))

parse_text_line(line, line_index, opts) ==
  IF is_comment_line(line) THEN parse_comment_line(line, line_index, opts)
  ELSE parse_text_segment(line, line_index, 0, Len(line), opts)

TextLine(buf) ==
  [indent |-> buf.indent, value |-> unescape_text(buf.value),
   span |-> buf.span, is_comment |-> buf.is_comment]

TextNode(lines) == [kind |-> "Text", lines |-> lines]

RECURSIVE MapTextLine(_)
MapTextLine(bufs) ==
  IF bufs = <<>> THEN <<>>
  ELSE <<TextLine(Head(bufs))>> \o MapTextLine(Tail(bufs))

finalize_text(lines) == TextNode(MapTextLine(lines))

\* flush_text: the nodes after the pending buffer is drained into them
flush_text(nodes, text_buf) ==
  IF text_buf = <<>> THEN nodes
  ELSE Append(nodes, TextNode(MapTextLine(text_buf)))

\* --------------------------------------------------------- block headers
\* char::is_ascii_whitespace: space, tab, line feed, form feed, carriage return
AsciiWhitespace == {" ", "\t", "\n", "\f", "\r"}

RECURSIVE skip_spaces(_, _)
skip_spaces(bytes, index) ==
  IF index < Len(bytes) /\ bytes[index + 1] \in AsciiWhitespace
  THEN skip_spaces(bytes, index + 1) ELSE index

RECURSIVE NameEnd(_, _)
NameEnd(bytes, cursor) ==
  IF cursor < Len(bytes)
     /\ (bytes[cursor + 1] \in AsciiAlnum \/ bytes[cursor + 1] \in {"_", "-"})
  THEN NameEnd(bytes, cursor + 1) ELSE cursor

RECURSIVE ArgEnd(_, _)
ArgEnd(bytes, cursor) ==
  IF cursor < Len(bytes)
     /\ bytes[cursor + 1] \notin AsciiWhitespace
     /\ bytes[cursor + 1] \notin {"[", "+"}
  THEN ArgEnd(bytes, cursor + 1) ELSE cursor

RECURSIVE ParseArgs(_, _, _)
ParseArgs(bytes, cursor, args) ==
  IF cursor >= Len(bytes) THEN [cursor |-> cursor, args |-> args]
  ELSE IF bytes[cursor + 1] \in {"[", "+"}
  THEN [cursor |-> cursor, args |-> args]
  ELSE IF bytes[cursor + 1] \in AsciiWhitespace
  THEN ParseArgs(bytes, skip_spaces(bytes, cursor), args)
  ELSE ParseArgs(bytes, skip_spaces(bytes, ArgEnd(bytes, cursor)),
                 Append(args, Slice(bytes, cursor, ArgEnd(bytes, cursor))))

parse_param_token(token) ==
  LET t == Trim(token)
      kv == SplitOnce(t, "=")
  IN IF kv = None THEN [key |-> t, value |-> <<>>]
     ELSE [key |-> Trim(Unwrap(kv).left), value |-> Trim(Unwrap(kv).right)]

PushParam(params, token) ==
  IF Trim(token) # <<>> THEN Append(params, parse_param_token(token))
  ELSE params

\* `bytes[cursor] as char` (parser.rs line 715): the byte taken as the
\* character of that code point, in the cells of its own UTF-8 encoding
ByteAsChar(b) ==
  IF b = G4 THEN <<"U+F0", "xB0">>
  ELSE IF b \in {E2, "U+C2", "U+C3", "U+F0"} THEN <<"U+C3", "x83">>
  ELSE IF Utf8Len(b) = 2 THEN <<"U+C2", "x82">>
  ELSE IF b \in Cont
  THEN <<[x82 |-> "U+82", x83 |-> "U+83", x84 |-> "U+84", x85 |-> "U+85",
          x9D |-> "U+9D", x9E |-> "U+9E", xA9 |-> "U+A9",
          xB0 |-> "U+B0"][b], b>>
  ELSE <<b>>

RECURSIVE ParamsLoop(_, _)
ParamsLoop(bytes, st) ==
  IF st.cursor >= Len(bytes) THEN [params |-> st.params, next |-> st.cursor]
  ELSE IF bytes[st.cursor + 1] = "]"
  THEN [params |-> PushParam(st.params, st.token), next |-> st.cursor + 1]
  ELSE IF bytes[st.cursor + 1] = ","
  THEN ParamsLoop(bytes, [cursor |-> st.cursor + 1, token |-> <<>>,
                          params |-> PushParam(st.params, st.token)])
  ELSE ParamsLoop(bytes, [cursor |-> st.cursor + 1,
                          token |-> st.token
                                      \o ByteAsChar(bytes[st.cursor + 1]),
                          params |-> st.params])

parse_params(header, start) ==
  IF start >= Len(header) \/ header[start + 1] # "["
  THEN [params |-> <<>>, next |-> start]
  ELSE ParamsLoop(header, [cursor |-> start + 1, token |-> <<>>,
                           params |-> <<>>])

RECURSIVE CountPlus(_, _)
CountPlus(bytes, cursor) ==
  IF cursor < Len(bytes) /\ bytes[cursor + 1] = "+"
  THEN 1 + CountPlus(bytes, cursor + 1) ELSE 0

\* a slip: trailing blanks of the header are skipped before the test
MissingSpace_SkipsBlanks(header, name_end) ==
  skip_spaces(header, name_end) = Len(header)

\* the flag of parser.rs line 661
MissingSpace(header, name_end) == name_end = Len(header)

\* parser.rs lines 687-693: the bracketed parameter list, when there is one
HeaderParams(header, a) ==
  IF a.cursor < Len(header) /\ header[a.cursor + 1] = "["
  THEN parse_params(header, a.cursor)
  ELSE [params |-> <<>>, next |-> a.cursor]

\* where the run of `+` is counted from (parser.rs lines 692 and 695)
PlusAt(header, a, p) ==
  IF a.cursor < Len(header) /\ header[a.cursor + 1] = "["
  THEN skip_spaces(header, p.next)
  ELSE a.cursor

\* parser.rs line 701
HeaderParts(header, name_end, a, p) ==
  Some([name |-> Slice(header, 1, name_end),
        args |-> a.args,
        params |-> p.params,
        plus_count |-> CountPlus(header, PlusAt(header, a, p)),
        missing_space |-> MissingSpace(header, name_end)])

HeaderAfterArgs(header, name_end, a) ==
  HeaderParts(header, name_end, a, HeaderParams(header, a))

HeaderAfterName(header, name_end) ==
  IF name_end = 1 THEN None
  ELSE HeaderAfterArgs(header, name_end,
                       ParseArgs(header, skip_spaces(header, name_end), <<>>))

parse_header_parts(header) ==
  IF header = <<>> \/ header[1] # "@" THEN None
  ELSE HeaderAfterName(header, NameEnd(header, 1))

\* Parser::scan_header: the header string up to the next '{'. st is the
\* state of its loop: the byte index i, its position p and the header so far
RECURSIVE ScanHeaderFrom(_, _)
ScanHeaderFrom(st, start_pos) ==
  IF st.i >= Len(input) THEN None
  ELSE IF input[st.i + 1] = "{"
  THEN Some([header |-> st.header,
             span |-> Span(start_pos, advance_position(st.p, "{")),
             end_idx |-> st.i + 1])
  ELSE IF input[st.i + 1] = "\n"
  THEN ScanHeaderFrom([i |-> st.i + 1,
                       p |-> Position(st.p.line + 1, 0, 0, 0),
                       header |-> Append(st.header, " ")], start_pos)
  ELSE ScanHeaderFrom(
         [i |-> st.i + Utf8Len(input[st.i + 1]),
          p |-> advance_position(st.p, input[st.i + 1]),
          header |-> st.header
                       \o Slice(input, st.i,
                                st.i + Utf8Len(input[st.i + 1]))],
         start_pos)

scan_header(start_idx, start_pos) ==
  ScanHeaderFrom([i |-> start_idx, p |-> start_pos, header |-> <<>>],
                 start_pos)

\* ----------------------------------------------------------------- cursor
Cursor(i, ls, p) == [idx |-> i, line_start_idx |-> ls, pos |-> p]

Cur == Cursor(idx, line_start_idx, pos)

at_end(c) == c.idx >= Len(input)

is_line_start(c) == c.idx = c.line_start_idx

LineEndAt(c, off) ==
  IF off = None THEN Len(input) ELSE c.line_start_idx + Unwrap(off)

line_end_idx(c) ==
  IF c.line_start_idx >= Len(input) THEN Len(input)
  ELSE LineEndAt(c, Find(Slice(input, c.line_start_idx, Len(input)),
                         <<"\n">>))

current_line_slice(c) == Slice(input, c.line_start_idx, line_end_idx(c))

current_line_offset(c) == saturating_sub(c.idx, c.line_start_idx)

peek_char(c) == IF c.idx < Len(input) THEN Some(input[c.idx + 1]) ELSE None

\* a cursor step whose byte column counts one per character
advance_char_UnitColumn(c) ==
  IF peek_char(c) = None THEN c
  ELSE IF input[c.idx + 1] = "\n"
  THEN Cursor(c.idx + 1, c.idx + 1, Position(c.pos.line + 1, 0, 0, 0))
  ELSE Cursor(c.idx + Utf8Len(input[c.idx + 1]), c.line_start_idx,
              Position(c.pos.line, c.pos.col8 + 1, c.pos.col16 + 1,
                       c.pos.col32 + 1))

advance_char(c) ==
  IF peek_char(c) = None THEN c
  ELSE LET ch == input[c.idx + 1]
           next == c.idx + Utf8Len(ch)
       IN IF ch = "\n"
          THEN Cursor(next, next, Position(c.pos.line + 1, 0, 0, 0))
          ELSE Cursor(next, c.line_start_idx,
                      Position(c.pos.line, c.pos.col8 + Utf8Len(ch),
                               c.pos.col16 + Utf16Len(ch), c.pos.col32 + 1))

RECURSIVE advance_to_idx(_, _)
advance_to_idx(c, target) ==
  IF target <= c.idx THEN c ELSE advance_to_idx(advance_char(c), target)

\* parser.rs lines 400-402
ConsumeNewline(c) == IF peek_char(c) = Some("\n") THEN advance_char(c) ELSE c

advance_line(c) ==
  ConsumeNewline(IF c.idx < line_end_idx(c)
                 THEN advance_to_idx(c, line_end_idx(c))
                 ELSE c)

advance_line_if_eol(c) ==
  IF c.idx >= line_end_idx(c) /\ peek_char(c) = Some("\n")
  THEN advance_char(c) ELSE c

CloseAt(c, at) == IF at = None THEN None ELSE Some(c.idx + Unwrap(at))

find_close_in_line(c, close) ==
  IF c.idx > line_end_idx(c) THEN None
  ELSE CloseAt(c, Find(Slice(input, c.idx, line_end_idx(c)), close))

\* ------------------------------------------------------------ attributes
Attribute(key, value, span) == [key |-> key, value |-> value, span |-> span]

\* a slip: the key is kept as written
AttrKey_Untrimmed(key) == key

AttrKey(key) == Trim(key)

\* a line the attribute phase takes for an attribute line ('#' but not '##')
IsAttrCandidate(trimmed) ==
  StartsWith(trimmed, <<"#">>) /\ ~StartsWith(trimmed, <<"#", "#">>)

\* parser.rs lines 225-241, with the line's span
AttributeFromSplit(kv, span) ==
  IF kv = None
  THEN [attr |-> None,
        diags |-> <<Diagnostic(span, "Error", "attribute missing ':'")>>]
  ELSE IF AttrKey(Unwrap(kv).left) = <<>>
  THEN [attr |-> None,
        diags |-> <<Diagnostic(span, "Error", "attribute key is empty")>>]
  ELSE [attr |-> Some(Attribute(AttrKey(Unwrap(kv).left),
                                Trim(Unwrap(kv).right), span)),
        diags |-> <<>>]

\* Parser::parse_attribute_line: the attribute, and the diagnostics pushed
parse_attribute_line(line, line_index) ==
  IF ~IsAttrCandidate(TrimStart(line)) THEN [attr |-> None, diags |-> <<>>]
  ELSE AttributeFromSplit(SplitOnce(Tail(TrimStart(line)), ":"),
                          line_span_from_line(line_index, line))

\* one pass of the loop of parse_attributes_at_start: does it go on?
AttributeLoopContinues(c) ==
  /\ is_line_start(c)
  /\ ~is_comment_line(current_line_slice(c))
  /\ Trim(current_line_slice(c)) # <<>>
  /\ parse_attribute_line(current_line_slice(c), c.pos.line).attr # None

\* the diagnostics of the pass that ends the loop
AttributeLoopDiags(c) ==
  IF /\ is_line_start(c)
     /\ ~is_comment_line(current_line_slice(c))
     /\ Trim(current_line_slice(c)) # <<>>
  THEN parse_attribute_line(current_line_slice(c), c.pos.line).diags
  ELSE <<>>

\* ----------------------------------------------------- try_parse_block_header
RECURSIVE ParamAttributes(_, _)
ParamAttributes(params, span) ==
  IF params = <<>> THEN <<>>
  ELSE <<Attribute(Head(params).key, Head(params).value, span)>>
       \o ParamAttributes(Tail(params), span)

BlockHeader(parts, start_pos, header_span) ==
  [name |-> parts.name, args |-> parts.args,
   params |-> ParamAttributes(parts.params, header_span),
   plus_count |-> parts.plus_count,
   span |-> Span(start_pos, header_span.end)]

\* the cursor after the header is scanned (parser.rs lines 261-262)
AfterHeader(c, end_idx) == advance_line_if_eol(advance_to_idx(c, end_idx))

\* called on a line for which find_block_header_start is Some
\* parser.rs lines 264-294: the header string is parsed
HeaderParsed(c, start_pos, sh, parts) ==
  IF parts = None
  THEN [block |-> None, cur |-> AfterHeader(c, sh.end_idx),
        diags |-> <<Diagnostic(sh.span, "Error", "missing block name")>>]
  ELSE [block |-> Some(BlockHeader(Unwrap(parts), start_pos, sh.span)),
        cur |-> AfterHeader(c, sh.end_idx),
        diags |-> IF Unwrap(parts).missing_space
                  THEN <<Diagnostic(sh.span, "Warning", MissingSpaceMessage)>>
                  ELSE <<>>]

\* parser.rs lines 249-262: the header is scanned up to its `{`
HeaderScanned(c, line, start_pos, sh) ==
  IF sh = None
  THEN [block |-> None, cur |-> advance_line(c),
        diags |-> <<Diagnostic(line_span_from_line(c.pos.line, line),
                               "Error",
                               "block header missing opening delimiter")>>]
  ELSE HeaderParsed(c, start_pos, Unwrap(sh),
                    parse_header_parts(Unwrap(sh).header))

HeaderFrom(c, line, at_col, start_pos) ==
  HeaderScanned(c, line, start_pos,
                scan_header(c.line_start_idx + at_col, start_pos))

HeaderAt(c, line, at_col) ==
  HeaderFrom(c, line, at_col,
             position_for_line_offset(c.pos.line, line, at_col))

\* called on a line for which find_block_header_start is Some
try_parse_block_header(c) ==
  HeaderAt(c, current_line_slice(c),
           Unwrap(find_block_header_start(current_line_slice(c)))[1])

\* ------------------------------------------------------------- node loop
Frame(closing, header) ==
  [closing |-> closing, header |-> header, attrs |-> <<>>,
   nodes |-> <<>>, text_buf |-> <<>>]

Top == stack[Len(stack)]

BlockNode(f, children) ==
  [kind |-> "Block", name |-> Unwrap(f.header).name,
   args |-> Unwrap(f.header).args, params |-> Unwrap(f.header).params,
   attrs |-> f.attrs, nodes |-> children, span |-> Unwrap(f.header).span]

PushOpt(seq, o) == IF o = None THEN seq ELSE Append(seq, Unwrap(o))

\* a slip: the top-level loop returns at a line holding a stray `}`
NodeCase_StopsAtStrayCloser(c, closing) ==
  IF at_end(c) THEN "end"
  ELSE IF closing = None /\ Find(current_line_slice(c), <<"}">>) # None
  THEN "end"
  ELSE IF closing # None /\ find_close_in_line(c, Unwrap(closing)) # None
  THEN "close"
  ELSE IF ~is_line_start(c) THEN "text"
  ELSE IF is_comment_line(current_line_slice(c)) THEN "comment"
  ELSE IF Trim(current_line_slice(c)) = <<>> THEN "blank"
  ELSE IF is_dollar_line(current_line_slice(c)) THEN "dollar"
  ELSE IF find_block_header_start(current_line_slice(c)) = None THEN "text"
  ELSE IF try_parse_block_header(c).block = None THEN "header_failed"
  ELSE "block"

\* the branch one pass of the loop of parse_nodes_until takes
NodeCase(c, closing) ==
  IF at_end(c) THEN "end"
  ELSE IF closing # None /\ find_close_in_line(c, Unwrap(closing)) # None
  THEN "close"
  ELSE IF ~is_line_start(c) THEN "text"
  ELSE IF is_comment_line(current_line_slice(c)) THEN "comment"
  ELSE IF Trim(current_line_slice(c)) = <<>> THEN "blank"
  ELSE IF is_dollar_line(current_line_slice(c)) THEN "dollar"
  ELSE IF find_block_header_start(current_line_slice(c)) = None THEN "text"
  ELSE IF try_parse_block_header(c).block = None THEN "header_failed"
  ELSE "block"

\* parser.rs lines 145-155: the text segment up to the end of the line
TextSegmentHere(c) ==
  parse_text_segment(current_line_slice(c), c.pos.line,
                     current_line_offset(c),
                     line_end_idx(c) - c.line_start_idx, options)

\* parser.rs lines 81-88: the text segment before the closing delimiter
TextSegmentBefore(c, close_idx) ==
  IF close_idx = c.idx THEN None
  ELSE parse_text_segment(current_line_slice(c), c.pos.line,
                          current_line_offset(c),
                          close_idx - c.line_start_idx, options)

\* &line[..byte_offset] unwinds unless byte_offset is a character boundary
IsCharBoundary(s, i) ==
  i = 0 \/ i = Len(s) \/ (i < Len(s) /\ s[i + 1] \notin Cont)

SegmentSpanAborts(line, value_start, value) ==
  /\ value # <<>>
  /\ \/ ~IsCharBoundary(line, value_start)
     \/ ~IsCharBoundary(line, value_start + Len(value))

SegmentAbortsAfterIndent(line, start, segment, lead) ==
  SegmentSpanAborts(line, start + lead.skip,
                    SegmentValue(start, SubSeq(segment, lead.skip + 1,
                                               Len(segment))))

\* parse_text_segment unwinds in span_for_line_offsets (parser.rs line 547)
TextSegmentAborts(line, start, end) ==
  /\ start < end
  /\ SegmentAbortsAfterIndent(line, start, Slice(line, start, end),
                              SegmentLead(start, Slice(line, start, end),
                                          options))

\* parse_comment_line unwinds in span_for_line_offsets (parser.rs line 580):
\* value_start is one byte past the indent run even when the line does not
\* have its `!` there
CommentAborts(line) ==
  LET skip == IndentRun([s |-> line, indent |-> 0, skip |-> 0], options).skip
      rest == CommentRest(SubSeq(line, skip + 1, Len(line)))
  IN /\ is_comment_line(line)
     /\ ~IsCharBoundary(line, skip + 1 + saturating_sub(Len(rest),
                                                        Len(TrimStart(rest))))

TextLineAborts(line) ==
  IF is_comment_line(line) THEN CommentAborts(line)
  ELSE TextSegmentAborts(line, 0, Len(line))

\* the text segment up to the end of the line unwinds
TextHereAborts(c) ==
  TextSegmentAborts(current_line_slice(c), current_line_offset(c),
                    line_end_idx(c) - c.line_start_idx)

\* the text segment before the closing delimiter unwinds
TextBeforeAborts(c, close_idx) ==
  /\ close_idx # c.idx
  /\ TextSegmentAborts(current_line_slice(c), current_line_offset(c),
                       close_idx - c.line_start_idx)

\* does the pass of the node loop at cursor c, of the given branch, unwind?
NodeStepAborts(c, closing, case) ==
  \/ /\ case = "close"
     /\ TextBeforeAborts(c, Unwrap(find_close_in_line(c, Unwrap(closing))))
  \/ /\ case = "text"
     /\ TextHereAborts(c)
  \/ /\ case = "comment"
     /\ CommentAborts(current_line_slice(c))
  \/ /\ case = "header_failed"
     /\ TextHereAborts(try_parse_block_header(c).cur)

\* ---------------------------------------------------------------- inputs
\* the lines the generated inputs are made of
\* "#k: v"
LineAttr == <<"#", "k", ":", " ", "v">>
\* "#k"
LineAttrNoColon == <<"#", "k">>
\* "##"
LineHashHash == <<"#", "#">>
\* "! c"
LineComment == <<"!", " ", "c">>
\* ""
LineBlank == <<>>
\* "$"
LineDollar == <<"$">>
\* "@a {"
LineOpen == <<"@", "a", " ", "{">>
\* " @b{x"
LineOpenNoSpace == <<" ", "@", "b", "{", "x">>
\* "@d"
LineNoBrace == <<"@", "d">>
\* "}"
LineClose == <<"}">>
\* "y }"
LineTextClose == <<"y", " ", "}">>
\* "\tx "
LineText == <<"\t", "x", " ">>

LinePool ==
  {LineAttr, LineAttrNoColon, LineHashHash, LineComment,
   LineBlank, LineDollar, LineOpen, LineOpenNoSpace,
   LineNoBrace, LineClose, LineTextClose, LineText}

RECURSIVE JoinLines(_)
JoinLines(ls) ==
  IF Len(ls) = 0 THEN <<>>
  ELSE IF Len(ls) = 1 THEN ls[1]
  ELSE ls[1] \o <<"\n">> \o JoinLines(Tail(ls))

Generated ==
  {JoinLines(ls) : ls \in UNION {[1..n -> LinePool] : n \in 1..MaxLines}}

\* inputs of the documentation and of the tests, and encodings
\* "@a { @b { x } }"
InNested ==
  <<"@", "a", " ", "{", " ", "@", "b", " ", "{", " ", "x", " ", "}", " ",
    "}">>
\* "@code+ { a } b } c }+ }"
InPlus ==
  <<"@", "c", "o", "d", "e", "+", " ", "{", " ", "a", " ", "}", " ", "b",
    " ", "}", " ", "c", " ", "}", "+", " ", "}">>
\* "@a { text"
InUnterminated == <<"@", "a", " ", "{", " ", "t", "e", "x", "t">>
\* "@part{x}"
InMissingSpace == <<"@", "p", "a", "r", "t", "{", "x", "}">>
\* "@@"
InAt == <<"@", "@">>
\* "{{"
InBrace == <<"{", "{">>
\* "!!foo"
InBang == <<"!", "!", "f", "o", "o">>
\* "!!\xe9"
InBangWide == <<"!", "!", E2, "xA9">>
\* ""
InEmpty == <<>>
\* "# :v\n"
InEmptyKey == <<"#", " ", ":", "v", "\n">>
\* "@list[line, k=v] p q {\n- \U0001d11e\n}\n"
InParams ==
  <<"@", "l", "i", "s", "t", "[", "l", "i", "n", "e", ",", " ", "k", "=",
    "v", "]", " ", "p", " ", "q", " ", "{", "\n", "-", " ", G4, "x9D", "x84",
    "x9E", "\n", "}", "\n">>
\* "@a\nb+ {\n} }+"
InFolded == <<"@", "a", "\n", "b", "+", " ", "{", "\n", "}", " ", "}", "+">>
\* "@{x\n$"
InNoName == <<"@", "{", "x", "\n", "$">>
\* "@a {\n@b {\nx\n}\n}"
InNestedLines ==
  <<"@", "a", " ", "{", "\n", "@", "b", " ", "{", "\n", "x", "\n", "}",
    "\n", "}">>
\* "x\n@a {\n @b{\nz"
InNestedOpen ==
  <<"x", "\n", "@", "a", " ", "{", "\n", " ", "@", "b", "{", "\n", "z">>
\* "@a {\nt\n$\n@b {\n}\n!c\n \n$\nu\n}"
InVerbatim ==
  <<"@", "a", " ", "{", "\n", "t", "\n", "$", "\n", "@", "b", " ", "{", "\n",
    "}", "\n", "!", "c", "\n", " ", "\n", "$", "\n", "u", "\n", "}">>
\* "#k:v\r\n@a {\r\n}\r\n"
InCrLf ==
  <<"#", "k", ":", "v", "\r", "\n", "@", "a", " ", "{", "\r", "\n", "}",
    "\r", "\n">>
\* "#k: v\n@a {\n# k : w\n#k\n}"
InAttrs ==
  <<"#", "k", ":", " ", "v", "\n", "@", "a", " ", "{", "\n", "#", " ", "k",
    " ", ":", " ", "w", "\n", "#", "k", "\n", "}">>

\* "  a\n\tb\n \tc\n \t! d\n@a { e\n$\n \tf\n$\n}"
InIndent ==
  <<" ", " ", "a", "\n", "\t", "b", "\n", " ", "\t", "c", "\n", " ", "\t",
    "!", " ", "d", "\n", "@", "a", " ", "{", " ", "e", "\n", "$", "\n", " ",
    "\t", "f", "\n", "$", "\n", "}">>

\* "@a {\n\U0001d11e\xe9 } x"
InWide ==
  <<"@", "a", " ", "{", "\n", G4, "x9D", "x84", "x9E", E2, "xA9", " ", "}", " ",
    "x">>

\* the input of tests::parses_block_with_attrs_and_text (lib.rs lines 17-21)
InTestBlock ==
  <<"\n", " ", " ", " ", " ", " ", " ", " ", " ", " ", " ", " ", " ", "@",
    "b", "l", "o", "c", "k", " ", "k", "e", "y", "1", "=", "\"", "v", "a",
    "l", "u", "e", "1", "\"", " ", "k", "e", "y", "2", "=", "\"", "v", "a",
    "l", "u", "e", "2", "\"", " ", "{", "\n", " ", " ", " ", " ", " ", " ",
    " ", " ", " ", " ", " ", " ", " ", " ", " ", " ", "T", "h", "i", "s",
    " ", "i", "s", " ", "s", "o", "m", "e", " ", "t", "e", "x", "t", " ",
    "i", "n", "s", "i", "d", "e", " ", "t", "h", "e", " ", "b", "l", "o",
    "c", "k", ".", "\n", " ", " ", " ", " ", " ", " ", " ", " ", " ", " ",
    " ", " ", "}", "\n", " ", " ", " ", " ", " ", " ", " ", " ">>

\* whitespace-only lines
BlankLinePool == {<<>>, <<" ">>, <<" ", "\t">>}

\* at most one such line
BlankLineRuns == {<<>>} \cup {<<b>> : b \in BlankLinePool}

\* "@b k=\"1\" w {" after an indent, and the body lines "    t" and "u v"
HeaderLine(indent) ==
  indent \o <<"@", "b", " ", "k", "=", "\"", "1", "\"", " ", "w", " ", "{">>

BodyLinePool == {<<" ", " ", " ", " ", "t">>, <<"u", " ", "v">>}

\* one body line, or the two of them
BodyLineRuns ==
  {<<b>> : b \in BodyLinePool}
    \cup {<< <<" ", " ", " ", " ", "t">>, <<"u", " ", "v">> >>}

\* blank lines, an indented header, body text, an indented closer, blank lines
BlockInputs ==
  {JoinLines(pre \o <<HeaderLine(hi)>> \o body \o <<ci \o <<"}">> >>
               \o post) :
     pre \in BlankLineRuns, hi \in {<<" ", " ">>, <<"\t">>},
     body \in BodyLineRuns, ci \in {<<" ">>, <<" ", "\t">>},
     post \in BlankLineRuns}

\* the input of tests::renders_markdown_and_html (lib.rs lines 29-41)
InRender ==
  <<"#", "t", "i", "t", "l", "e", ":", " ", "D", "e", "m", "o", "\n", "\n",
    "@", "p", "a", "r", "t", " ", "H", "e", "l", "l", "o", " ", "W", "o",
    "r", "l", "d", " ", "{", "\n", " ", " ", "@", "l", "i", "s", "t", "[",
    "b", "u", "l", "l", "e", "t", "]", " ", "{", "\n", " ", " ", " ", " ",
    "F", "i", "r", "s", "t", " ", "i", "t", "e", "m", "\n", " ", " ", " ",
    " ", "S", "e", "c", "o", "n", "d", " ", "i", "t", "e", "m", "\n", " ",
    " ", "}", "\n", "\n", " ", " ", "@", "c", "o", "d", "e", "[", "l", "a",
    "n", "g", "=", "r", "u", "s", "t", "]", " ", "{", "\n", " ", " ", " ",
    " ", "p", "r", "i", "n", "t", "l", "n", "!", "(", "\"", "h", "i", "\"",
    ")", ";", "\n", " ", " ", "}", "\n", "}", "\n">>

\* "@a {{ x }"
InEscapedHeader == <<"@", "a", " ", "{", "{", " ", "x", " ", "}">>

\* "#k:\x0cv\x0c\n\x0c!c\n\x0c\n\x0c$\n\x0c\nr\n\x0b$\n\x0c@a\x0cb {\nx }"
InFeeds ==
  <<"#", "k", ":", "\f", "v", "\f", "\n", "\f", "!", "c", "\n", "\f", "\n",
    "\f", "$", "\n", "\f", "\n", "r", "\n", "U+0B", "$", "\n", "\f", "@",
    "a", "\f", "b", " ", "{", "\n", "x", " ", "}">>
\* "@a\x0bb[k=\xe9,j=\x85] {\n#\x85k\x85:\x85v\x85\n}"
InWideParams ==
  <<"@", "a", "U+0B", "b", "[", "k", "=", E2, "xA9", ",", "j", "=", "U+85",
    "x85", "]", " ", "{", "\n", "#", "U+85", "x85", "k", "U+85", "x85", ":",
    "U+85", "x85", "v", "U+85", "x85", "\n", "}">>
\* "\x85!c"
InNelComment == <<"U+85", "x85", "!", "c">>
\* "$\n\x85!c\n$"
InNelVerbatim == <<"$", "\n", "U+85", "x85", "!", "c", "\n", "$">>

Examples ==
  {InNested, InPlus, InUnterminated, InMissingSpace, InEscapedHeader,
   InFeeds, InWideParams, InNelComment, InNelVerbatim,
   InAt, InBrace, InBang, InBangWide,
   InEmpty, InEmptyKey, InParams, InFolded,
   InNoName, InNestedLines, InNestedOpen, InVerbatim,
   InCrLf,
   InAttrs, InIndent, InWide, InRender}

Inputs == Examples \cup Generated \cup BlockInputs \cup {InTestBlock}

\* ParseOptions::default() (space_width 1, tab_width 2) and another choice
DefaultOptions == [space_width |-> 1, tab_width |-> 2]

OptionSet == {DefaultOptions, [space_width |-> 2, tab_width |-> 3]}

\* ============================================================== backend.rs
\* the string literals of the renderers, one field each
Lit ==
  [\* part
   part |->
     <<"p", "a", "r", "t">>,
   \* list
   list |->
     <<"l", "i", "s", "t">>,
   \* code
   code |->
     <<"c", "o", "d", "e">>,
   \* lang
   lang |->
     <<"l", "a", "n", "g">>,
   \* bullet
   bullet |->
     <<"b", "u", "l", "l", "e", "t">>,
   \* line
   line |->
     <<"l", "i", "n", "e">>,
   \* the fence of three backquotes, a backquote written U+60
   fence |->
     <<"U+60", "U+60", "U+60">>,
   \* <div class="lmm-document"
   div_document |->
     <<"<", "d", "i", "v", " ", "c", "l", "a", "s", "s", "=", "\"", "l",
       "m", "m", "-", "d", "o", "c", "u", "m", "e", "n", "t", "\"">>,
   \* >\n
   tag_end |->
     <<">", "\n">>,
   \* </div>\n
   div_close |->
     <<"<", "/", "d", "i", "v", ">", "\n">>,
   \* <section class="lmm-part"
   section_part |->
     <<"<", "s", "e", "c", "t", "i", "o", "n", " ", "c", "l", "a", "s",
       "s", "=", "\"", "l", "m", "m", "-", "p", "a", "r", "t", "\"">>,
   \* </section>\n
   section_close |->
     <<"<", "/", "s", "e", "c", "t", "i", "o", "n", ">", "\n">>,
   \* <pre class="lmm-code"
   pre_code |->
     <<"<", "p", "r", "e", " ", "c", "l", "a", "s", "s", "=", "\"", "l",
       "m", "m", "-", "c", "o", "d", "e", "\"">>,
   \* ><code
   code_open |->
     <<">", "<", "c", "o", "d", "e">>,
   \*  class="language-
   language |->
     <<" ", "c", "l", "a", "s", "s", "=", "\"", "l", "a", "n", "g", "u",
       "a", "g", "e", "-">>,
   \* </code></pre>\n
   code_close |->
     <<"<", "/", "c", "o", "d", "e", ">", "<", "/", "p", "r", "e", ">",
       "\n">>,
   \* lmm-block lmm-block-
   block_class |->
     <<"l", "m", "m", "-", "b", "l", "o", "c", "k", " ", "l", "m", "m",
       "-", "b", "l", "o", "c", "k", "-">>,
   \* <div class="
   div_class |->
     <<"<", "d", "i", "v", " ", "c", "l", "a", "s", "s", "=", "\"">>,
   \* <p>
   p |->
     <<"<", "p", ">">>,
   \* </p>\n
   p_close |->
     <<"<", "/", "p", ">", "\n">>,
   \* <ul class="lmm-list"
   ul |->
     <<"<", "u", "l", " ", "c", "l", "a", "s", "s", "=", "\"", "l", "m",
       "m", "-", "l", "i", "s", "t", "\"">>,
   \* <li>
   li |->
     <<"<", "l", "i", ">">>,
   \* </li>\n
   li_close |->
     <<"<", "/", "l", "i", ">", "\n">>,
   \* </ul>\n
   ul_close |->
     <<"<", "/", "u", "l", ">", "\n">>,
   \* <div class="lmm-lines"
   div_lines |->
     <<"<", "d", "i", "v", " ", "c", "l", "a", "s", "s", "=", "\"", "l",
       "m", "m", "-", "l", "i", "n", "e", "s", "\"">>,
   \* <div class="lmm-line">
   div_line |->
     <<"<", "d", "i", "v", " ", "c", "l", "a", "s", "s", "=", "\"", "l",
       "m", "m", "-", "l", "i", "n", "e", "\"", ">">>,
   \*  data-
   data |->
     <<" ", "d", "a", "t", "a", "-">>,
   \*  data-param-
   data_param |->
     <<" ", "d", "a", "t", "a", "-", "p", "a", "r", "a", "m", "-">>,
   \* ="
   eq_quote |->
     <<"=", "\"">>,
   \* &amp;
   amp |->
     <<"&", "a", "m", "p", ";">>,
   \* &lt;
   lt |->
     <<"&", "l", "t", ";">>,
   \* &gt;
   gt |->
     <<"&", "g", "t", ";">>,
   \* &quot;
   quot |->
     <<"&", "q", "u", "o", "t", ";">>,
   \* &#39;
   apos |->
     <<"&", "#", "3", "9", ";">>]

RECURSIVE Repeat(_, _)
Repeat(ch, n) == IF n = 0 THEN <<>> ELSE <<ch>> \o Repeat(ch, n - 1)

\* args.join(" ")
RECURSIVE JoinArgs(_)
JoinArgs(args) ==
  IF Len(args) = 0 THEN <<>>
  ELSE IF Len(args) = 1 THEN args[1]
  ELSE args[1] \o <<" ">> \o JoinArgs(Tail(args))

\* backend.rs lines 33-42 and 144-153
PartTitle(block) ==
  IF block.args = <<>> THEN Lit.part ELSE JoinArgs(block.args)

\* a heading level that is not capped
PartLevel_Uncapped(part_level) == part_level + 1

\* (part_level + 1).min(6)
PartLevel(part_level) == IF part_level + 1 < 6 THEN part_level + 1 ELSE 6

\* params.iter().find(|p| p.key == "lang").map(|p| p.value).unwrap_or("")
RECURSIVE CodeLang(_)
CodeLang(params) ==
  IF params = <<>> THEN <<>>
  ELSE IF Head(params).key = Lit.lang THEN Head(params).value
  ELSE CodeLang(Tail(params))

has_param(block, key) ==
  \/ \E i \in DOMAIN block.params : block.params[i].key = key
  \/ \E i \in DOMAIN block.args : block.args[i] = key

list_style_LineFirst(block) ==
  IF has_param(block, Lit.line) THEN "Line" ELSE "Bullet"

list_style(block) ==
  IF has_param(block, Lit.bullet) THEN "Bullet"
  ELSE IF has_param(block, Lit.line) THEN "Line"
  ELSE "Bullet"

push_indent(indent) == Repeat(" ", indent)

\* ------------------------------------------------------------- markdown
\* the loop of render_text_markdown
RECURSIVE TextLinesMarkdown(_)
TextLinesMarkdown(lines) ==
  IF lines = <<>> THEN <<>>
  ELSE IF Head(lines).is_comment THEN TextLinesMarkdown(Tail(lines))
  ELSE push_indent(Head(lines).indent) \o Head(lines).value \o <<"\n">>
         \o TextLinesMarkdown(Tail(lines))

render_text_markdown(text) == TextLinesMarkdown(text.lines) \o <<"\n">>

\* backend.rs lines 91-107
RECURSIVE ListLinesMarkdown(_, _)
ListLinesMarkdown(lines, style) ==
  IF lines = <<>> THEN <<>>
  ELSE IF Head(lines).is_comment THEN ListLinesMarkdown(Tail(lines), style)
  ELSE (IF style = "Bullet" THEN <<"-", " ">> ELSE <<>>)
         \o Head(lines).value \o <<"\n">>
         \o ListLinesMarkdown(Tail(lines), style)

\* a loop that keeps the comment lines
RECURSIVE TextOnlyLinesMarkdown_KeepsComments(_)
TextOnlyLinesMarkdown_KeepsComments(lines) ==
  IF lines = <<>> THEN <<>>
  ELSE Head(lines).value \o <<"\n">>
         \o TextOnlyLinesMarkdown_KeepsComments(Tail(lines))

\* the lines of one Text node in render_text_only_markdown
RECURSIVE TextOnlyLinesMarkdown(_)
TextOnlyLinesMarkdown(lines) ==
  IF lines = <<>> THEN <<>>
  ELSE IF Head(lines).is_comment THEN TextOnlyLinesMarkdown(Tail(lines))
  ELSE Head(lines).value \o <<"\n">> \o TextOnlyLinesMarkdown(Tail(lines))

RECURSIVE render_text_only_markdown(_)
render_text_only_markdown(nodes) ==
  IF nodes = <<>> THEN <<>>
  ELSE IF Head(nodes).kind = "Text"
  THEN TextOnlyLinesMarkdown(Head(nodes).lines)
         \o render_text_only_markdown(Tail(nodes))
  ELSE render_text_only_markdown(Tail(nodes))

RECURSIVE render_nodes_markdown(_, _)
RECURSIVE render_block_markdown(_, _)
RECURSIVE ListNodesMarkdown(_, _)

\* the loop over block.nodes of render_list_markdown
ListNodesMarkdown(nodes, style) ==
  IF nodes = <<>> THEN <<>>
  ELSE IF Head(nodes).kind = "Text"
  THEN ListLinesMarkdown(Head(nodes).lines, style)
         \o ListNodesMarkdown(Tail(nodes), style)
  ELSE render_block_markdown(Head(nodes), 0)
         \o ListNodesMarkdown(Tail(nodes), style)

render_list_markdown(block, style) ==
  ListNodesMarkdown(block.nodes, style)
    \o IF \E i \in DOMAIN block.nodes :
            /\ block.nodes[i].kind = "Text"
            /\ \E k \in DOMAIN block.nodes[i].lines :
                 ~block.nodes[i].lines[k].is_comment
       THEN <<"\n">> \* had_text
       ELSE <<>>

render_block_markdown(block, part_level) ==
  IF block.name = Lit.part
  THEN Repeat("#", PartLevel(part_level)) \o <<" ">> \o PartTitle(block)
         \o <<"\n", "\n">>
         \o render_nodes_markdown(block.nodes, part_level + 1)
  ELSE IF block.name = Lit.list
  THEN render_list_markdown(block, list_style(block))
  ELSE IF block.name = Lit.code
  THEN Lit.fence \o CodeLang(block.params) \o <<"\n">>
         \o render_text_only_markdown(block.nodes)
         \o Lit.fence \o <<"\n", "\n">>
  ELSE render_nodes_markdown(block.nodes, part_level)

render_nodes_markdown(nodes, part_level) ==
  IF nodes = <<>> THEN <<>>
  ELSE IF Head(nodes).kind = "Text"
  THEN render_text_markdown(Head(nodes))
         \o render_nodes_markdown(Tail(nodes), part_level)
  ELSE render_block_markdown(Head(nodes), part_level)
         \o render_nodes_markdown(Tail(nodes), part_level)

RECURSIVE trim_trailing_newlines(_)
trim_trailing_newlines(out) ==
  IF out # <<>> /\ out[Len(out)] = "\n"
  THEN trim_trailing_newlines(SubSeq(out, 1, Len(out) - 1))
  ELSE out

render_markdown(doc) ==
  trim_trailing_newlines(render_nodes_markdown(doc.nodes, 0))

\* the ASCII digits and letters in order
Ascii ==
  [digits |-> <<"0", "1", "2", "3", "4", "5", "6", "7", "8", "9">>,
   upper |->
     <<"A", "B", "C", "D", "E", "F", "G", "H", "I", "J", "K", "L", "M",
       "N", "O", "P", "Q", "R", "S", "T", "U", "V", "W", "X", "Y", "Z">>,
   lower |->
     <<"a", "b", "c", "d", "e", "f", "g", "h", "i", "j", "k", "l", "m",
       "n", "o", "p", "q", "r", "s", "t", "u", "v", "w", "x", "y", "z">>]

\* the decimal digits of format!("{level}")
RECURSIVE Decimal(_)
Decimal(n) ==
  IF n < 10 THEN <<Ascii.digits[n + 1]>>
  ELSE Decimal(n \div 10) \o <<Ascii.digits[(n % 10) + 1]>>

to_ascii_lowercase(ch) ==
  IF \E i \in 1..26 : Ascii.upper[i] = ch
  THEN Ascii.lower[CHOOSE i \in 1..26 : Ascii.upper[i] = ch]
  ELSE ch

\* an escape that lets the single quote through
EscapeChar_KeepsApostrophe(ch) ==
  IF ch = "&" THEN Lit.amp
  ELSE IF ch = "<" THEN Lit.lt
  ELSE IF ch = ">" THEN Lit.gt
  ELSE IF ch = "\"" THEN Lit.quot
  ELSE <<ch>>

\* backend.rs lines 348-355
EscapeChar(ch) ==
  IF ch = "&" THEN Lit.amp
  ELSE IF ch = "<" THEN Lit.lt
  ELSE IF ch = ">" THEN Lit.gt
  ELSE IF ch = "\"" THEN Lit.quot
  ELSE IF ch = "'" THEN Lit.apos
  ELSE <<ch>>

\* escape_html_into: the text pushed for value
RECURSIVE escape_html_into(_)
escape_html_into(value) ==
  IF value = <<>> THEN <<>>
  ELSE EscapeChar(Head(value)) \o escape_html_into(Tail(value))

RECURSIVE sanitize_html_ident(_)
sanitize_html_ident(value) ==
  IF value = <<>> THEN <<>>
  ELSE (IF Head(value) \in AsciiAlnum \cup {"-", "_"}
        THEN <<to_ascii_lowercase(Head(value))>>
        ELSE IF Head(value) \in AsciiWhitespace \cup {":"} THEN <<"-">>
        ELSE <<>>)
         \o sanitize_html_ident(Tail(value))

\* the loops of push_html_attrs, backend.rs lines 308-318 and 320-330
RECURSIVE HtmlAttrList(_, _)
HtmlAttrList(prefix, attrs) ==
  IF attrs = <<>> THEN <<>>
  ELSE (IF sanitize_html_ident(Head(attrs).key) = <<>> THEN <<>>
        ELSE prefix \o sanitize_html_ident(Head(attrs).key) \o Lit.eq_quote
               \o escape_html_into(Head(attrs).value) \o <<"\"">>)
         \o HtmlAttrList(prefix, Tail(attrs))

\* params is an Option
push_html_attrs(attrs, params) ==
  HtmlAttrList(Lit.data, attrs)
    \o IF params = None THEN <<>>
       ELSE HtmlAttrList(Lit.data_param, Unwrap(params))

RECURSIVE render_text_html(_)
render_text_html(lines) ==
  IF lines = <<>> THEN <<>>
  ELSE IF Head(lines).is_comment THEN render_text_html(Tail(lines))
  ELSE Lit.p \o escape_html_into(Head(lines).value) \o Lit.p_close
         \o render_text_html(Tail(lines))

\* the loops over text.lines of render_list_html
RECURSIVE ListLinesHtml(_, _)
ListLinesHtml(lines, style) ==
  IF lines = <<>> THEN <<>>
  ELSE IF Head(lines).is_comment THEN ListLinesHtml(Tail(lines), style)
  ELSE (IF style = "Bullet" THEN Lit.li ELSE Lit.div_line)
         \o escape_html_into(Head(lines).value)
         \o (IF style = "Bullet" THEN Lit.li_close ELSE Lit.div_close)
         \o ListLinesHtml(Tail(lines), style)

\* the lines of one Text node in render_text_only_html
RECURSIVE TextOnlyLinesHtml(_)
TextOnlyLinesHtml(lines) ==
  IF lines = <<>> THEN <<>>
  ELSE IF Head(lines).is_comment THEN TextOnlyLinesHtml(Tail(lines))
  ELSE escape_html_into(Head(lines).value) \o <<"\n">>
         \o TextOnlyLinesHtml(Tail(lines))

RECURSIVE render_text_only_html(_)
render_text_only_html(nodes) ==
  IF nodes = <<>> THEN <<>>
  ELSE IF Head(nodes).kind = "Text"
  THEN TextOnlyLinesHtml(Head(nodes).lines)
         \o render_text_only_html(Tail(nodes))
  ELSE render_text_only_html(Tail(nodes))

RECURSIVE render_nodes_html(_, _)
RECURSIVE render_block_html(_, _)
RECURSIVE ListNodesHtml(_, _)

\* the loop over block.nodes of render_list_html
ListNodesHtml(nodes, style) ==
  IF nodes = <<>> THEN <<>>
  ELSE IF Head(nodes).kind = "Text"
  THEN ListLinesHtml(Head(nodes).lines, style)
         \o ListNodesHtml(Tail(nodes), style)
  ELSE render_block_html(Head(nodes), 0)
         \o ListNodesHtml(Tail(nodes), style)

render_list_html(block, style) ==
  (IF style = "Bullet" THEN Lit.ul ELSE Lit.div_lines)
    \o push_html_attrs(block.attrs, Some(block.params))
    \o Lit.tag_end
    \o ListNodesHtml(block.nodes, style)
    \o (IF style = "Bullet" THEN Lit.ul_close ELSE Lit.div_close)

render_block_html(block, part_level) ==
  IF block.name = Lit.part
  THEN Lit.section_part
         \o push_html_attrs(block.attrs, Some(block.params))
         \o Lit.tag_end
         \o <<"<", "h">> \o Decimal(PartLevel(part_level)) \o <<">">>
         \o escape_html_into(PartTitle(block))
         \o <<"<", "/", "h">> \o Decimal(PartLevel(part_level))
         \o <<">", "\n">>
         \o render_nodes_html(block.nodes, part_level + 1)
         \o Lit.section_close
  ELSE IF block.name = Lit.list
  THEN render_list_html(block, list_style(block))
  ELSE IF block.name = Lit.code
  THEN Lit.pre_code
         \o push_html_attrs(block.attrs, Some(block.params))
         \o Lit.code_open
         \o (IF CodeLang(block.params) = <<>> THEN <<>>
             ELSE Lit.language \o escape_html_into(CodeLang(block.params))
                    \o <<"\"">>)
         \o <<">">>
         \o render_text_only_html(block.nodes)
         \o Lit.code_close
  ELSE Lit.div_class \o Lit.block_class \o sanitize_html_ident(block.name)
         \o <<"\"">>
         \o push_html_attrs(block.attrs, Some(block.params))
         \o Lit.tag_end
         \o render_nodes_html(block.nodes, part_level)
         \o Lit.div_close

render_nodes_html(nodes, part_level) ==
  IF nodes = <<>> THEN <<>>
  ELSE IF Head(nodes).kind = "Text"
  THEN render_text_html(Head(nodes).lines)
         \o render_nodes_html(Tail(nodes), part_level)
  ELSE render_block_html(Head(nodes), part_level)
         \o render_nodes_html(Tail(nodes), part_level)

render_html(doc) ==
  Lit.div_document \o push_html_attrs(doc.attrs, None) \o Lit.tag_end
    \o render_nodes_html(doc.nodes, 0)
    \o Lit.div_close

\* ----------------------------------------------------------------- actions
\* the parse has returned; Doc is the Document of its ParseResult
Done == pc = "done"

Doc == Unwrap(document)

Init ==
  /\ input \in Inputs
  /\ options \in OptionSet
  /\ idx = 0
  /\ line_start_idx = 0
  /\ pos = Position(0, 0, 0, 0)
  /\ diagnostics = <<>>
  /\ stack = <<Frame(None, None)>>
  /\ pc = "attrs"
  /\ raw_lines = <<>>
  /\ document = None
  /\ markdown = None
  /\ html = None
  /\ col = None
  /\ notifications = <<>>
  /\ handlers = <<>>
  /\ documents = <<>>
  /\ published = <<>>

SetCursor(c) ==
  /\ idx' = c.idx
  /\ line_start_idx' = c.line_start_idx
  /\ pos' = c.pos

SetTop(f) == stack' = [stack EXCEPT ![Len(stack)] = f]

\* parse_nodes_until returns children to the frame that called it
Return(children) ==
  stack' = [i \in 1..(Len(stack) - 1) |->
              IF i = Len(stack) - 1
              THEN [stack[i] EXCEPT
                      !.nodes = Append(@, BlockNode(Top, children))]
              ELSE stack[i]]

\* parse_attributes_at_start: a pass that takes an attribute line
ParseAttribute ==
  /\ pc = "attrs"
  /\ AttributeLoopContinues(Cur)
  /\ SetTop([Top EXCEPT !.attrs =
       Append(@, Unwrap(parse_attribute_line(current_line_slice(Cur),
                                             pos.line).attr))])
  /\ SetCursor(advance_line(Cur))
  /\ UNCHANGED <<server, markdown, html, input, options, diagnostics, pc, raw_lines, document>>

\* parse_attributes_at_start: the pass that breaks out of the loop
AttributesEnd ==
  /\ pc = "attrs"
  /\ ~AttributeLoopContinues(Cur)
  /\ diagnostics' = diagnostics \o AttributeLoopDiags(Cur)
  /\ pc' = "nodes"
  /\ UNCHANGED <<server, markdown, html, input, options, idx, line_start_idx, pos, stack, raw_lines,
                 document>>

InNodeLoop(case) ==
  /\ pc = "nodes"
  /\ NodeCase(Cur, Top.closing) = case
  /\ ~NodeStepAborts(Cur, Top.closing, case)

\* parser.rs lines 73-93: the closing delimiter is in the rest of the line
CloseStep(close_idx) ==
  /\ Return(flush_text(Top.nodes,
                       PushOpt(Top.text_buf,
                               TextSegmentBefore(Cur, close_idx))))
  /\ SetCursor(advance_to_idx(Cur, close_idx + Len(Unwrap(Top.closing))))

NodeClose ==
  /\ InNodeLoop("close")
  /\ CloseStep(Unwrap(find_close_in_line(Cur, Unwrap(Top.closing))))
  /\ UNCHANGED <<server, markdown, html, input, options, diagnostics, pc, raw_lines, document>>

\* parser.rs lines 98-106
NodeComment ==
  /\ InNodeLoop("comment")
  /\ SetTop([Top EXCEPT !.text_buf =
       PushOpt(@, parse_comment_line(current_line_slice(Cur), pos.line,
                                     options))])
  /\ SetCursor(advance_line(Cur))
  /\ UNCHANGED <<server, markdown, html, input, options, diagnostics, pc, raw_lines, document>>

\* a slip: a blank line ends the pending text
NodeBlank_Flushes ==
  /\ InNodeLoop("blank")
  /\ SetTop([Top EXCEPT !.nodes = flush_text(Top.nodes, Top.text_buf),
                        !.text_buf = <<>>])
  /\ SetCursor(advance_line(Cur))
  /\ UNCHANGED <<server, markdown, html, input, options, diagnostics, pc, raw_lines, document>>

\* parser.rs lines 107-110
NodeBlank ==
  /\ InNodeLoop("blank")
  /\ SetCursor(advance_line(Cur))
  /\ UNCHANGED <<server, markdown, html, input, options, diagnostics, stack, pc, raw_lines, document>>

\* parser.rs lines 111-113: a '$' line opens a verbatim section
NodeDollar ==
  /\ InNodeLoop("dollar")
  /\ SetTop([Top EXCEPT !.nodes = flush_text(Top.nodes, Top.text_buf),
                        !.text_buf = <<>>])
  /\ SetCursor(advance_line(Cur))
  /\ raw_lines' = <<>>
  /\ pc' = "dollar"
  /\ UNCHANGED <<server, markdown, html, input, options, diagnostics, document>>

\* a slip: a line holding a closing brace also ends the verbatim section
CollectorDone_StopsAtBrace ==
  IF at_end(Cur) THEN TRUE
  ELSE \/ is_dollar_line(current_line_slice(Cur))
       \/ Find(current_line_slice(Cur), <<"}">>) # None

\* collect_until_dollar: the loop ends at end of input or at a '$' line
CollectorDone ==
  IF at_end(Cur) THEN TRUE ELSE is_dollar_line(current_line_slice(Cur))

\* collect_until_dollar: a pass that collects a line
CollectLine ==
  /\ pc = "dollar"
  /\ ~CollectorDone
  /\ raw_lines' = Append(raw_lines, [line_index |-> pos.line,
                                     raw |-> current_line_slice(Cur)])
  /\ SetCursor(advance_line(Cur))
  /\ UNCHANGED <<server, markdown, html, input, options, diagnostics, stack, pc, document>>

RECURSIVE ParseRawLines(_)
ParseRawLines(raws) ==
  IF raws = <<>> THEN <<>>
  ELSE PushOpt(<<>>, parse_text_line(Head(raws).raw, Head(raws).line_index,
                                     options))
       \o ParseRawLines(Tail(raws))

RawLinesAbort == \E i \in 1..Len(raw_lines) : TextLineAborts(raw_lines[i].raw)

\* collect_until_dollar returns; parser.rs lines 115-125 build the Text node
CollectEnd ==
  /\ pc = "dollar"
  /\ CollectorDone
  /\ ~RawLinesAbort
  /\ IF at_end(Cur)
     THEN /\ diagnostics' = Append(diagnostics,
               Diagnostic(span_at_line_start(saturating_sub(pos.line, 1)),
                          "Error", "unterminated $ block"))
          /\ UNCHANGED <<idx, line_start_idx, pos>>
     ELSE /\ SetCursor(advance_line(Cur))
          /\ UNCHANGED diagnostics
  /\ SetTop([Top EXCEPT !.nodes =
       IF ParseRawLines(raw_lines) = <<>> THEN @
       ELSE Append(@, finalize_text(ParseRawLines(raw_lines)))])
  /\ raw_lines' = <<>>
  /\ pc' = "nodes"
  /\ UNCHANGED <<server, markdown, html, input, options, document>>

\* parser.rs lines 127-141: a block header; its body is parsed by a new frame
BlockStep(r) ==
  /\ stack' = Append(
       [stack EXCEPT ![Len(stack)] =
          [Top EXCEPT !.nodes = flush_text(Top.nodes, Top.text_buf),
                      !.text_buf = <<>>]],
       Frame(Some(block_close_delim(Unwrap(r.block).plus_count)), r.block))
  /\ SetCursor(r.cur)
  /\ diagnostics' = diagnostics \o r.diags

NodeBlock ==
  /\ InNodeLoop("block")
  /\ BlockStep(try_parse_block_header(Cur))
  /\ pc' = "attrs"
  /\ UNCHANGED <<server, markdown, html, input, options, raw_lines, document>>

\* parser.rs lines 127 and 145-155: the header yields no block, and the line
\* the cursor is then on is taken as text
HeaderFailedStep(r) ==
  /\ SetTop([Top EXCEPT !.text_buf = PushOpt(@, TextSegmentHere(r.cur))])
  /\ SetCursor(advance_line(r.cur))
  /\ diagnostics' = diagnostics \o r.diags

NodeHeaderFailed ==
  /\ InNodeLoop("header_failed")
  /\ HeaderFailedStep(try_parse_block_header(Cur))
  /\ UNCHANGED <<server, markdown, html, input, options, pc, raw_lines, document>>

\* parser.rs lines 145-155
NodeText ==
  /\ InNodeLoop("text")
  /\ SetTop([Top EXCEPT !.text_buf = PushOpt(@, TextSegmentHere(Cur))])
  /\ SetCursor(advance_line(Cur))
  /\ UNCHANGED <<server, markdown, html, input, options, diagnostics, pc, raw_lines, document>>

\* parser.rs lines 158-164 in a block body: end of input before the closer
BlockEnd ==
  /\ InNodeLoop("end")
  /\ Len(stack) > 1
  /\ Return(flush_text(Top.nodes, Top.text_buf))
  /\ diagnostics' =
       IF Top.closing # None
       THEN Append(diagnostics,
                   Diagnostic(span_at_line_start(saturating_sub(pos.line, 1)),
                              "Error", "missing closing delimiter"))
       ELSE diagnostics
  /\ UNCHANGED <<server, markdown, html, input, options, idx, line_start_idx, pos, pc, raw_lines,
                 document>>

RECURSIVE consume_trailing_comments(_)
consume_trailing_comments(c) ==
  IF /\ ~at_end(c)
     /\ \/ is_comment_line(current_line_slice(c))
        \/ Trim(current_line_slice(c)) = <<>>
  THEN consume_trailing_comments(advance_line(c))
  ELSE c

\* the top-level node loop ends, and parse_document (lines 59-64) finishes
\* parser.rs lines 60-63, at the cursor consume_trailing_comments leaves
TrailingCheck(c) ==
  /\ SetCursor(c)
  /\ diagnostics' =
       IF ~at_end(c)
       THEN Append(diagnostics,
                   Diagnostic(span_at_line_start(c.pos.line), "Error",
                              "unexpected trailing content"))
       ELSE diagnostics

DocumentEnd ==
  /\ InNodeLoop("end")
  /\ Len(stack) = 1
  /\ TrailingCheck(consume_trailing_comments(Cur))
  /\ document' = Some([attrs |-> Top.attrs,
                       nodes |-> flush_text(Top.nodes, Top.text_buf)])
  /\ stack' = <<>>
  /\ pc' = "done"
  /\ UNCHANGED <<server, markdown, html, input, options, raw_lines>>

\* a slice off a character boundary unwinds the parse: no result is returned
Abort ==
  /\ \/ pc = "nodes" /\ NodeStepAborts(Cur, Top.closing,
                                         NodeCase(Cur, Top.closing))
     \/ pc = "dollar" /\ CollectorDone /\ RawLinesAbort
  /\ pc' = "aborted"
  /\ UNCHANGED <<server, markdown, html, input, options, idx, line_start_idx, pos, diagnostics, stack,
                 raw_lines, document>>

\* render_markdown(&parsed.document), on the Document a parse returned
RenderMarkdown ==
  /\ pc = "done"
  /\ markdown = None
  /\ markdown' = Some(render_markdown(Doc))
  /\ UNCHANGED <<server, html, input, options, idx, line_start_idx, pos, diagnostics,
                 stack, pc, raw_lines, document>>

\* render_html(&parsed.document)
RenderHtml ==
  /\ pc = "done"
  /\ html = None
  /\ html' = Some(render_html(Doc))
  /\ UNCHANGED <<server, markdown, input, options, idx, line_start_idx, pos,
                 diagnostics, stack, pc, raw_lines, document>>

Next ==
  \/ ParseAttribute
  \/ AttributesEnd
  \/ NodeClose
  \/ NodeComment
  \/ NodeBlank
  \/ NodeDollar
  \/ CollectLine
  \/ CollectEnd
  \/ NodeBlock
  \/ NodeHeaderFailed
  \/ NodeText
  \/ BlockEnd
  \/ DocumentEnd
  \/ Abort
  \/ RenderMarkdown
  \/ RenderHtml

Spec == Init /\ [][Next]_vars

\* ============================================ the renderers on Documents
\* bounds of the Documents rendered
MaxChain == 3

MaxParts == 7

\* the renderers read no span
NoSpan == Span(Position(0, 0, 0, 0), Position(0, 0, 0, 0))

Line(value) ==
  [indent |-> 0, value |-> value, span |-> NoSpan, is_comment |-> FALSE]

Comment(value) ==
  [indent |-> 0, value |-> value, span |-> NoSpan, is_comment |-> TRUE]

Block(name, args, params, attrs, nodes) ==
  [kind |-> "Block", name |-> name, args |-> args, params |-> params,
   attrs |-> attrs, nodes |-> nodes, span |-> NoSpan]

Param(key, value) == Attribute(key, value, NoSpan)

Document(attrs, nodes) == [attrs |-> attrs, nodes |-> nodes]

\* box
LitBox == <<"b", "o", "x">>
\* the args of `@part Hello World`
HelloWorldArgs == <<<<"H", "e", "l", "l", "o">>, <<"W", "o", "r", "l", "d">>>>

\* Hello World
HelloWorld == <<"H", "e", "l", "l", "o", " ", "W", "o", "r", "l", "d">>

\* blocks nested in one another: a part with a title, a part without args, a
\* list, or a block of another name
ChainKinds == {"titled", "untitled", "list", "box"}

ChainBlock(kind, nodes) ==
  IF kind = "titled" THEN Block(Lit.part, HelloWorldArgs, <<>>, <<>>, nodes)
  ELSE IF kind = "untitled" THEN Block(Lit.part, <<>>, <<>>, <<>>, nodes)
  ELSE IF kind = "list" THEN Block(Lit.list, <<>>, <<>>, <<>>, nodes)
  ELSE Block(LitBox, <<>>, <<>>, <<>>, nodes)

RECURSIVE Chain(_)
Chain(kinds) ==
  IF kinds = <<>> THEN <<TextNode(<<Line(<<"t">>)>>)>>
  ELSE <<ChainBlock(Head(kinds), Chain(Tail(kinds)))>>

ChainDocs ==
  {Document(<<>>, Chain(kinds)) :
     kinds \in UNION {[1..n -> ChainKinds] : n \in 1..MaxChain}}

\* n parts nested in one another
TowerDocs == {Document(<<>>, Chain([i \in 1..n |-> "untitled"])) :
                n \in 1..MaxParts}

\* parts side by side, below a part and at the top level
DocSiblings ==
  Document(<<>>,
           <<ChainBlock("titled", Chain(<<"untitled">>) \o Chain(<<"titled">>)),
             ChainBlock("untitled", <<>>)>>)

HeadingDocs == ChainDocs \cup TowerDocs \cup {DocSiblings}

\* content that holds a character of HTML markup: a<b, a"b, ...
HtmlSpecials == {"&", "<", ">", "\"", "'"}

HostileValue(ch) == <<"a", ch, "b">>

\* "K \x0c\x0b<:k\"_-9" followed by a 2-byte character: sanitized to
\* "k---k_-9", the form feed mapped to `-` and the vertical tab dropped
HostileKey ==
  <<"K", " ", "\f", "U+0B", "<", ":", "k", "\"", "_", "-", "9", E2, "xA9">>

\* "<'>": nothing of it is left by the sanitizer
EmptiedKey == <<"<", "'", ">">>

\* "B<x>"
HostileName == <<"B", "<", "x", ">">>

HostileAttrs(v) == <<Param(HostileKey, v), Param(EmptiedKey, v)>>

HostileBlock(name, args, v) ==
  Block(name, args \o <<v>>, HostileAttrs(v) \o <<Param(Lit.lang, v)>>,
        HostileAttrs(v),
        <<TextNode(<<Line(v), Comment(v)>>),
          Block(HostileName, <<v>>, HostileAttrs(v), <<>>,
                <<TextNode(<<Line(v)>>)>>)>>)

HostileDocs ==
  {Document(HostileAttrs(HostileValue(ch)),
            <<TextNode(<<Line(HostileValue(ch))>>),
              HostileBlock(b[1], b[2], HostileValue(ch))>>) :
     ch \in HtmlSpecials,
     b \in {<<Lit.part, <<>> >>, <<Lit.list, <<>> >>, <<Lit.list, <<Lit.line>> >>,
            <<Lit.code, <<>> >>, <<HostileName, <<>> >>}}

\* a line whose value is one capital letter, a comment or not
LetterLine(letter, is_comment) ==
  [indent |-> IF letter = "B" THEN 2 ELSE 0, value |-> <<letter>>,
   span |-> NoSpan, is_comment |-> is_comment]

\* the Block child of the block of a CommentDoc
InnerBlock(c) ==
  <<Block(LitBox, <<>>, <<>>, <<>>,
          <<TextNode(<<LetterLine("F", c), LetterLine("I", ~c)>>)>>)>>

BlockKinds ==
  {<<Lit.part, <<>> >>, <<Lit.list, <<>> >>, <<Lit.list, <<Lit.line>> >>,
   <<Lit.code, <<>> >>, <<LitBox, <<>> >>}

\* Text nodes at top level, in a block and below a block of it, the lines
\* A..I in document order, with every pattern of comment flags
CommentDocs ==
  {Document(<<>>,
            <<TextNode(<<LetterLine("A", f[1]), LetterLine("B", f[2]),
                         LetterLine("C", f[3])>>),
              Block(k[1], k[2], <<>>, <<>>,
                    <<TextNode(<<LetterLine("D", g[1]), LetterLine("E", g[2])>>)>>
                      \o InnerBlock(g[1])
                      \o <<TextNode(<<LetterLine("G", g[2]),
                                      LetterLine("H", g[1])>>)>>)>>) :
     f \in [1..3 -> BOOLEAN], g \in [1..2 -> BOOLEAN], k \in BlockKinds}

\* "lines" is no marker: has_param compares whole keys
MarkerSeqs ==
  {<<>>, <<Lit.line>>, <<Lit.bullet>>, <<Lit.line, Lit.bullet>>,
   <<Lit.bullet, Lit.line>>, <<Lit.line \o <<"s">> >>}

\* the children of the list of a ListDoc: lines P (Q a comment) R, a part
\* titled t holding the line S, and the line T
ListNodes ==
  <<TextNode(<<Line(<<"P">>), Comment(<<"Q">>), Line(<<"R">>)>>),
    Block(Lit.part, << <<"t">> >>, <<>>, <<>>, <<TextNode(<<Line(<<"S">>)>>)>>),
    TextNode(<<Line(<<"T">>)>>)>>

\* a list with every choice of markers among its args and its param keys
ListDocs ==
  {Document(<<>>,
            <<Block(Lit.list, a, [i \in DOMAIN k |-> Param(k[i], <<>>)], <<>>,
                    ListNodes)>>) :
     a \in MarkerSeqs, k \in MarkerSeqs}

Documents == HeadingDocs \cup HostileDocs \cup CommentDocs \cup ListDocs

RenderInit ==
  /\ document \in {Some(d) : d \in Documents}
  /\ pc = "done"
  /\ input = <<>>
  /\ options = DefaultOptions
  /\ idx = 0
  /\ line_start_idx = 0
  /\ pos = Position(0, 0, 0, 0)
  /\ diagnostics = <<>>
  /\ stack = <<>>
  /\ raw_lines = <<>>
  /\ markdown = None
  /\ html = None
  /\ col = None
  /\ notifications = <<>>
  /\ handlers = <<>>
  /\ documents = <<>>
  /\ published = <<>>

RenderNext ==
  \/ RenderMarkdown
  \/ RenderHtml

RenderSpec == RenderInit /\ [][RenderNext]_vars

\* ========================================================== lsp/src/main.rs
\* bound on the didChange notifications that follow the didOpen
MaxChanges == 1

\* the texts the editor sends
\* "x"
TextPlain == <<"x">>
\* "#k: v\n! c\n\n$\nr\n$\n@a {\nt\nx }\n@d"
TextRich ==
  <<"#", "k", ":", " ", "v", "\n", "!", " ", "c", "\n", "\n", "$", "\n", "r",
    "\n", "$", "\n", "@", "a", " ", "{", "\n", "t", "\n", "x", " ", "}",
    "\n", "@", "d">>

\* "#\U0001d11e\xe9": the span of its diagnostic ends at col8 7, col16 4,
\* col32 3
TextWide == <<"#", G4, "x9D", "x84", "x9E", E2, "xA9">>

Texts == {TextPlain, TextRich, TextWide, InUnterminated, InBangWide}

Uris == {"file:///a.lmm"}

\* params.content_changes of a didChange: none, one, or two changes
ChangeLists ==
  {<<>>} \cup {<<[text |-> t]>> : t \in Texts}
         \cup {<<[text |-> TextPlain], [text |-> InUnterminated]>>}

DidOpenNotifications ==
  {[method |-> "didOpen", uri |-> u, text |-> t] : u \in Uris, t \in Texts}

DidChangeNotifications ==
  {[method |-> "didChange", uri |-> u, content_changes |-> cs] :
     u \in Uris, cs \in ChangeLists}

\* a document is opened and then changed
NotificationSeqs ==
  {<<o>> \o cs : o \in DidOpenNotifications,
                 cs \in UNION {[1..n -> DidChangeNotifications] :
                                 n \in 0..MaxChanges}}

\* the diagnostics on_change builds from those of the parse; the casts to
\* u32 keep the lines and columns of these texts as they are.  main.rs reads
\* span.start.col and span.end.col, a field the Position of parser.rs does
\* not have: which of col8, col16 and col32 it is depends on the build
RECURSIVE LspDiagnostics(_)
LspDiagnostics(diags) ==
  IF diags = <<>> THEN <<>>
  ELSE <<[range |->
            [start |-> [line |-> Head(diags).span.start.line,
                        character |->
                          Head(diags).span.start[Unwrap(col)]],
             end |-> [line |-> Head(diags).span.end.line,
                      character |->
                        Head(diags).span.end[Unwrap(col)]]],
          severity |-> IF Head(diags).severity = "Error"
                       THEN "ERROR" ELSE "WARNING",
          message |-> Head(diags).message,
          source |-> "LumosMark"]>>
       \o LspDiagnostics(Tail(diags))

\* LspService::new: no document is stored, no handler runs
LspInit ==
  /\ col \in {Some("col8"), Some("col16"), Some("col32")}
  /\ notifications \in NotificationSeqs
  /\ handlers = <<>>
  /\ documents = <<>>
  /\ published = <<>>
  /\ input = <<>>
  /\ options = DefaultOptions
  /\ idx = 0
  /\ line_start_idx = 0
  /\ pos = Position(0, 0, 0, 0)
  /\ diagnostics = <<>>
  /\ stack = <<>>
  /\ pc = "idle"
  /\ raw_lines = <<>>
  /\ document = None
  /\ markdown = None
  /\ html = None

\* did_open is called for the next notification and runs up to the await of
\* the write lock in store_document
DidOpen ==
  /\ pc = "idle"
  /\ notifications # <<>>
  /\ Head(notifications).method = "didOpen"
  /\ notifications' = Tail(notifications)
  /\ handlers' = Append(handlers,
       [uri |-> Head(notifications).uri, text |-> Head(notifications).text,
        at |-> "store_document", diagnostics |-> <<>>])
  /\ UNCHANGED <<documents, published, col, input, options, idx,
                 line_start_idx, pos, diagnostics, stack, pc, raw_lines,
                 document, markdown, html>>

\* did_change: the first content change is taken, and without one the
\* handler returns at once
DidChange ==
  /\ pc = "idle"
  /\ notifications # <<>>
  /\ Head(notifications).method = "didChange"
  /\ notifications' = Tail(notifications)
  /\ handlers' =
       IF Head(notifications).content_changes = <<>> THEN handlers
       ELSE Append(handlers,
              [uri |-> Head(notifications).uri,
               text |-> Head(Head(notifications).content_changes).text,
               at |-> "store_document", diagnostics |-> <<>>])
  /\ UNCHANGED <<documents, published, col, input, options, idx,
                 line_start_idx, pos, diagnostics, stack, pc, raw_lines,
                 document, markdown, html>>

\* store_document gets the write lock and inserts the text; on_change then
\* starts parse_document on the text the handler was given
StoreDocument ==
  /\ pc = "idle"
  /\ \E h \in DOMAIN handlers :
       /\ handlers[h].at = "store_document"
       /\ documents' =
            [u \in DOMAIN documents \cup {handlers[h].uri} |->
               IF u = handlers[h].uri THEN handlers[h].text ELSE documents[u]]
       /\ handlers' = [handlers EXCEPT ![h].at = "parse_document"]
       /\ input' = handlers[h].text
  /\ options' = DefaultOptions
  /\ idx' = 0
  /\ line_start_idx' = 0
  /\ pos' = Position(0, 0, 0, 0)
  /\ diagnostics' = <<>>
  /\ stack' = <<Frame(None, None)>>
  /\ pc' = "attrs"
  /\ raw_lines' = <<>>
  /\ document' = None
  /\ UNCHANGED <<notifications, published, col, markdown, html>>

\* on_change: the parse has returned; its diagnostics are converted and the
\* handler reaches the await of publish_diagnostics
OnChange ==
  /\ pc = "done"
  /\ \E h \in DOMAIN handlers :
       /\ handlers[h].at = "parse_document"
       /\ handlers' =
            [handlers EXCEPT ![h].at = "publish_diagnostics",
                             ![h].diagnostics = LspDiagnostics(diagnostics)]
  /\ input' = <<>>
  /\ idx' = 0
  /\ line_start_idx' = 0
  /\ pos' = Position(0, 0, 0, 0)
  /\ diagnostics' = <<>>
  /\ pc' = "idle"
  /\ document' = None
  /\ UNCHANGED <<notifications, documents, published, col, options, stack,
                 raw_lines, markdown, html>>

\* the client is sent the notification, and the handler returns
PublishDiagnostics ==
  /\ pc = "idle"
  /\ \E h \in DOMAIN handlers :
       /\ handlers[h].at = "publish_diagnostics"
       /\ published' = Append(published,
            [uri |-> handlers[h].uri,
             diagnostics |-> handlers[h].diagnostics])
       /\ handlers' = [handlers EXCEPT ![h].at = "returned"]
  /\ UNCHANGED <<notifications, documents, col, input, options, idx,
                 line_start_idx, pos, diagnostics, stack, pc, raw_lines,
                 document, markdown, html>>

LspNext ==
  \/ DidOpen
  \/ DidChange
  \/ StoreDocument
  \/ ParseAttribute
  \/ AttributesEnd
  \/ NodeClose
  \/ NodeComment
  \/ NodeBlank
  \/ NodeDollar
  \/ CollectLine
  \/ CollectEnd
  \/ NodeBlock
  \/ NodeHeaderFailed
  \/ NodeText
  \/ BlockEnd
  \/ DocumentEnd
  \/ Abort
  \/ OnChange
  \/ PublishDiagnostics

LspSpec == LspInit /\ [][LspNext]_vars

\* =================================================================== claims
IsBlockNamed(n, name) == n.kind = "Block" /\ n.name = name

\* a Text node of exactly one line with the given value
IsTextOf(n, value) ==
  n.kind = "Text" /\ Len(n.lines) = 1 /\ n.lines[1].value = value

RECURSIVE BlocksIn(_)
BlocksIn(nodes) ==
  UNION {{nodes[i]} \cup BlocksIn(nodes[i].nodes) :
           i \in {j \in DOMAIN nodes : nodes[j].kind = "Block"}}

\* source order of positions: by line, then by column
PosLeq(p, q) == p.line < q.line \/ (p.line = q.line /\ p.col8 <= q.col8)

\* C1: for every input and every ParseOptions the parse returns a Document
\* and a diagnostics list; it never aborts.
C1_ParseNeverAborts == pc # "aborted"

\* C2: `@a { @b { x } }` parses with no diagnostic into Block a holding
\* exactly Block b, which holds exactly one Text with the single line `x`.
C2_BalancedNesting ==
  (Done /\ input = InNested) =>
    /\ diagnostics = <<>>
    /\ Len(Doc.nodes) = 1
    /\ IsBlockNamed(Doc.nodes[1], <<"a">>)
    /\ Len(Doc.nodes[1].nodes) = 1
    /\ IsBlockNamed(Doc.nodes[1].nodes[1], <<"b">>)
    /\ Len(Doc.nodes[1].nodes[1].nodes) = 1
    /\ IsTextOf(Doc.nodes[1].nodes[1].nodes[1], <<"x">>)

\* C3: in `@code+ { a } b } c }+ }` the block closes at the first `}+`, its
\* single text line has the value `a } b } c`, what follows the closer is
\* sibling content, and there is no diagnostic.
C3_PlusDelimited ==
  (Done /\ input = InPlus) =>
    /\ diagnostics = <<>>
    /\ Len(Doc.nodes) >= 1
    /\ IsBlockNamed(Doc.nodes[1], <<"c", "o", "d", "e">>)
    /\ Len(Doc.nodes[1].nodes) = 1
    /\ IsTextOf(Doc.nodes[1].nodes[1],
                <<"a", " ", "}", " ", "b", " ", "}", " ", "c">>)

\* C4: `@a { text` yields Block a holding a Text with the value `text`, and
\* exactly one diagnostic, the Error "missing closing delimiter".
C4_UnterminatedBlock ==
  (Done /\ input = InUnterminated) =>
    /\ Len(diagnostics) = 1
    /\ diagnostics[1].severity = "Error"
    /\ diagnostics[1].message = "missing closing delimiter"
    /\ Len(Doc.nodes) = 1
    /\ IsBlockNamed(Doc.nodes[1], <<"a">>)
    /\ Len(Doc.nodes[1].nodes) = 1
    /\ IsTextOf(Doc.nodes[1].nodes[1], <<"t", "e", "x", "t">>)

\* the pass of the node loop at the cursor finds a header without any `{`
HeaderScanFails ==
  /\ pc = "nodes"
  /\ NodeCase(Cur, Top.closing) = "header_failed"
  /\ Len(try_parse_block_header(Cur).diags) = 1
  /\ try_parse_block_header(Cur).diags[1].message
       = "block header missing opening delimiter"

\* C5: a header line with no `{` after it is skipped, and only that line:
\* the pass leaves the cursor at the start of the line that follows, which
\* the node loop then processes like any other line.
C5_SkipsOnlyTheHeaderLine ==
  [][(HeaderScanFails /\ pc' = "nodes")
       => /\ idx' = advance_line(Cur).idx
          /\ Top'.text_buf = Top.text_buf]_vars

\* C6: the whole lines `@@`, `##`, `{{` parse to one text line of value `@`,
\* `#`, `{`, and `!!foo` to the value `!foo` with is_comment = FALSE, without
\* any diagnostic.
C6_EscapedLines ==
  \A e \in {<<InAt, <<"@">> >>, <<LineHashHash, <<"#">> >>,
            <<InBrace, <<"{">> >>, <<InBang, <<"!", "f", "o", "o">> >>} :
    (Done /\ input = e[1]) =>
      /\ diagnostics = <<>>
      /\ Len(Doc.nodes) = 1
      /\ IsTextOf(Doc.nodes[1], e[2])
      /\ ~Doc.nodes[1].lines[1].is_comment

\* C7: the diagnostics list is in source order: an earlier diagnostic does
\* not start later in the source than a later one.
C7_DiagnosticsInSourceOrder ==
  \A i, j \in 1..Len(diagnostics) :
    i < j => PosLeq(diagnostics[i].span.start, diagnostics[j].span.start)

\* ------------------------------------------------------- the source by line
NewlinesBefore(i) == Cardinality({j \in 1..i : input[j] = "\n"})

LineCount == NewlinesBefore(Len(input)) + 1

\* byte offset at which line n of the input starts
LineStartIdx(n) ==
  IF n = 0 THEN 0
  ELSE SetMin({i \in 1..Len(input) : NewlinesBefore(i) = n})

SourceLine(n) ==
  Slice(input, LineStartIdx(n),
        IF n + 1 < LineCount THEN LineStartIdx(n + 1) - 1 ELSE Len(input))

IdxOf(p) == LineStartIdx(p.line) + p.col8

\* the line the cursor is on, when it is at a line start or at end of input
CursorLine == IF idx = line_start_idx THEN pos.line ELSE pos.line + 1

NameChars == AsciiAlnum \cup {"_", "-"}

\* the source of a block's header, from its '@' up to its '{'
HeaderSource(b) == Slice(input, IdxOf(b.span.start), IdxOf(b.span.end) - 1)

BraceFollowsName(b) ==
  /\ Len(HeaderSource(b)) >= 2
  /\ \A i \in 2..Len(HeaderSource(b)) : HeaderSource(b)[i] \in NameChars

WarningsAt(span) ==
  {i \in DOMAIN diagnostics :
     diagnostics[i].severity = "Warning" /\ diagnostics[i].span = span}

\* C8: a block header whose name is immediately followed by `{` produces
\* exactly one Warning and still yields the Block of that name; a header
\* with anything between the name and `{` produces no Warning; and there is
\* no other Warning.
C8_MissingSpaceWarning ==
  Done =>
    /\ \A b \in BlocksIn(Doc.nodes) :
         IF BraceFollowsName(b)
         THEN /\ Cardinality(WarningsAt(b.span)) = 1
              /\ b.name = Tail(HeaderSource(b))
         ELSE WarningsAt(b.span) = {}
    /\ \A i \in DOMAIN diagnostics :
         diagnostics[i].severity = "Warning" =>
           \E b \in BlocksIn(Doc.nodes) :
             b.span = diagnostics[i].span /\ BraceFollowsName(b)

C8_Witness ==
  /\ Done
  /\ \E b \in BlocksIn(Doc.nodes) : BraceFollowsName(b)
  /\ \E b \in BlocksIn(Doc.nodes) : ~BraceFollowsName(b)

\* ------------------------------------------------------------ verbatim
\* the line holds a character other than a space or a tab
HasNonBlank(line) == \E i \in DOMAIN line : line[i] \notin {" ", "\t"}

\* the indexes of the collected lines that are not empty
NonEmptyLineIndexes ==
  {raw_lines[i].line_index :
     i \in {k \in DOMAIN raw_lines : raw_lines[k].raw # <<>>}}

\* the indexes of the collected lines that hold more than spaces and tabs
NonBlankLineIndexes ==
  {raw_lines[i].line_index :
     i \in {k \in DOMAIN raw_lines : HasNonBlank(raw_lines[k].raw)}}

\* while a verbatim section is collected, every line after its opening `$`
\* line has been collected as it stands, and no text is pending
C9_Collected ==
  pc = "dollar" =>
    /\ CursorLine - Len(raw_lines) >= 1
    /\ Trim(SourceLine(CursorLine - Len(raw_lines) - 1)) = <<"$">>
    /\ \A i \in DOMAIN raw_lines :
         /\ raw_lines[i].line_index = CursorLine - Len(raw_lines) + i - 1
         /\ raw_lines[i].raw = SourceLine(raw_lines[i].line_index)
         /\ Trim(raw_lines[i].raw) # <<"$">>
    /\ Top.text_buf = <<>>

\* the nodes a step appends to the frame on top of the stack
NewNodes == SubSeq(Top'.nodes, Len(Top.nodes) + 1, Len(Top'.nodes))

\* a step of the collector: a line that is not `$` is only collected; the
\* section ends at a `$` line, which is consumed, or at end of input, and
\* then the collected lines whose indexes are in `kept`, and no others, are
\* the lines of one Text node of the frame that held the opener
C9_StepFor(kept) ==
  pc = "dollar" =>
    IF pc' = "dollar"
    THEN /\ Trim(SourceLine(CursorLine)) # <<"$">>
         /\ stack' = stack
         /\ diagnostics' = diagnostics
    ELSE IF pc' = "nodes"
    THEN /\ stack' = [stack EXCEPT ![Len(stack)].nodes = Top.nodes \o NewNodes]
         /\ IF kept = {} THEN NewNodes = <<>>
            ELSE /\ Len(NewNodes) = 1
                 /\ NewNodes[1].kind = "Text"
                 /\ {NewNodes[1].lines[j].span.start.line :
                       j \in DOMAIN NewNodes[1].lines} = kept
                 /\ \A j \in DOMAIN NewNodes[1].lines :
                      j > 1 => NewNodes[1].lines[j - 1].span.start.line
                                 < NewNodes[1].lines[j].span.start.line
         /\ IF idx >= Len(input) THEN idx' = idx
            ELSE /\ Trim(SourceLine(CursorLine)) = <<"$">>
                 /\ idx' = IF CursorLine + 1 < LineCount
                           THEN LineStartIdx(CursorLine + 1) ELSE Len(input)
                 /\ diagnostics' = diagnostics
    ELSE pc' = "aborted"

\* a `$` line that the node loop reaches at the start of the line opens a
\* section: the text pending is flushed and the collector starts after it
C9_Opens ==
  (/\ pc = "nodes"
   /\ idx = line_start_idx
   /\ idx < Len(input)
   /\ Trim(SourceLine(pos.line)) = <<"$">>) =>
    /\ pc' = "dollar"
    /\ raw_lines' = <<>>
    /\ Top'.text_buf = <<>>
    /\ idx' = IF pos.line + 1 < LineCount
              THEN LineStartIdx(pos.line + 1) ELSE Len(input)
    /\ diagnostics' = diagnostics

FirstColon(t) == SetMin({p \in 1..Len(t) : t[p] = ":"})

\* `#<key>:<value>` with a single leading `#` and a key that is not blank
ValidAttrLine(line) ==
  LET t == TrimStart(line)
  IN /\ Len(t) >= 2
     /\ t[1] = "#"
     /\ t[2] # "#"
     /\ \E p \in 2..Len(t) : t[p] = ":"
     /\ Trim(SubSeq(t, 2, FirstColon(t) - 1)) # <<>>

\* a `#` line (not `##`) that is not a valid attribute line
BadAttrLine(line) ==
  LET t == TrimStart(line)
  IN /\ Len(t) >= 1
     /\ t[1] = "#"
     /\ Len(t) >= 2 => t[2] # "#"
     /\ ~ValidAttrLine(line)

NoSurroundingSpace(s) == Trim(s) = s

\* the attribute list is made of the consecutive lines from line `first` on
AttrsFromLines(attrs, first) ==
  \A i \in DOMAIN attrs :
    LET line == SourceLine(first + i - 1)
        t == TrimStart(line)
    IN /\ attrs[i].span.start = Position(first + i - 1, 0, 0, 0)
       /\ ValidAttrLine(line)
       /\ attrs[i].key = Trim(SubSeq(t, 2, FirstColon(t) - 1))
       /\ attrs[i].value = Trim(SubSeq(t, FirstColon(t) + 1, Len(t)))
       /\ attrs[i].key # <<>>
       /\ NoSurroundingSpace(attrs[i].key)
       /\ NoSurroundingSpace(attrs[i].value)

\* every attribute list built so far: of the frames, and of finished blocks
C10_Attrs ==
  /\ \A i \in DOMAIN stack :
       /\ AttrsFromLines(stack[i].attrs,
                         IF stack[i].header = None THEN 0
                         ELSE Unwrap(stack[i].header).span.end.line + 1)
       /\ \A b \in BlocksIn(stack[i].nodes) :
            AttrsFromLines(b.attrs, b.span.end.line + 1)
  /\ Done =>
       /\ AttrsFromLines(Doc.attrs, 0)
       /\ \A b \in BlocksIn(Doc.nodes) :
            AttrsFromLines(b.attrs, b.span.end.line + 1)

\* a pass of the attribute loop: a valid attribute line at the cursor is
\* consumed; any other line ends the phase and is left in place, with one
\* Error when it is a `#` line that is not a valid attribute line
C10_Step ==
  pc = "attrs" =>
    IF idx = line_start_idx /\ ValidAttrLine(SourceLine(pos.line))
    THEN /\ pc' = "attrs"
         /\ Len(Top'.attrs) = Len(Top.attrs) + 1
         /\ diagnostics' = diagnostics
         /\ idx' > idx
    ELSE /\ pc' = "nodes"
         /\ stack' = stack
         /\ idx' = idx
         /\ IF idx = line_start_idx /\ BadAttrLine(SourceLine(pos.line))
            THEN /\ Len(diagnostics') = Len(diagnostics) + 1
                 /\ SubSeq(diagnostics', 1, Len(diagnostics)) = diagnostics
                 /\ diagnostics'[Len(diagnostics')].severity = "Error"
            ELSE diagnostics' = diagnostics

\* C10: the leading-attribute phase consumes consecutive `#<key>:<value>`
\* lines (single `#`) as attributes in source order, key and value trimmed;
\* it stops at the first line that is not one; a `#` line without `:` or
\* with an empty key emits one Error, adds no attribute and stops the run;
\* every Attribute of an attrs list has a non-empty key without surrounding
\* whitespace.
C10_LeadingAttributes == [](C10_Attrs) /\ [][C10_Step]_vars

\* a finished parse with document attributes and a block with attributes,
\* where a run was ended by an invalid `#` line
C10_Witness ==
  /\ Done
  /\ Doc.attrs # <<>>
  /\ \E b \in BlocksIn(Doc.nodes) : b.attrs # <<>>
  /\ \E i \in DOMAIN diagnostics :
       diagnostics[i].message = "attribute missing ':'"

\* --------------------------------------------------- the text lines parsed
RECURSIVE TextLinesIn(_)
TextLinesIn(nodes) ==
  UNION {IF nodes[i].kind = "Text"
         THEN {nodes[i].lines[k] : k \in DOMAIN nodes[i].lines}
         ELSE TextLinesIn(nodes[i].nodes) : i \in DOMAIN nodes}

\* C11: every TextLine.value of a parse result has no leading and no trailing
\* whitespace, whether the segment is a whole line, begins after a `{`, or
\* ends before a closing delimiter.
C11_ValuesStripped ==
  Done => \A tl \in TextLinesIn(Doc.nodes) : NoSurroundingSpace(tl.value)

\* C12: no TextLine of a parse result has an empty or all-whitespace value.
C12_NoEmptyValue ==
  Done => \A tl \in TextLinesIn(Doc.nodes) : Trim(tl.value) # <<>>

\* ------------------------------------------------------------ indentation
\* the leading run of spaces and tabs of a source line
RECURSIVE LeadingRun(_)
LeadingRun(line) ==
  IF line # <<>> /\ Head(line) \in {" ", "\t"}
  THEN <<Head(line)>> \o LeadingRun(Tail(line))
  ELSE <<>>

CountOf(s, ch) == Cardinality({i \in DOMAIN s : s[i] = ch})

\* space_width times the spaces plus tab_width times the tabs of the run
WeightedIndent(run) ==
  options.space_width * CountOf(run, " ")
    + options.tab_width * CountOf(run, "\t")

\* a comment line is a whole line; the value of a plain segment that starts
\* at column 0 begins right after the line's leading run
StartsAtColumn0(tl) ==
  \/ tl.is_comment
  \/ tl.span.start.col8 = Len(LeadingRun(SourceLine(tl.span.start.line)))

IndentsOf(node) == [k \in DOMAIN node.lines |-> node.lines[k].indent]

\* C13: the indent of a text, comment or verbatim line that starts at column 0
\* is space_width times the spaces plus tab_width times the tabs of its
\* leading run (with the defaults: two spaces 2, one tab 2, space and tab 3);
\* a segment that does not start at column 0 has indent 0.
C13_IndentWeighting ==
  Done =>
    /\ \A tl \in TextLinesIn(Doc.nodes) :
         tl.indent = IF StartsAtColumn0(tl)
                     THEN WeightedIndent(
                            LeadingRun(SourceLine(tl.span.start.line)))
                     ELSE 0
    /\ (input = InIndent /\ options = DefaultOptions)
         => IndentsOf(Doc.nodes[1]) = <<2, 2, 3, 3>>

C13_Witness ==
  /\ Done
  /\ input = InIndent
  /\ options = DefaultOptions
  /\ Len(Doc.nodes) = 2
  /\ Doc.nodes[1].kind = "Text"
  /\ Doc.nodes[1].lines[4].is_comment
  /\ Doc.nodes[2].kind = "Block"
  /\ Len(Doc.nodes[2].nodes) = 2
  /\ IndentsOf(Doc.nodes[2].nodes[1]) = <<0>>
  /\ IndentsOf(Doc.nodes[2].nodes[2]) = <<3>>

\* ------------------------------------------------------------- the cursor
\* the columns are in lockstep with the byte index, and the line and the line
\* start are those of the newlines consumed
C14_Columns ==
  /\ pos.col8 = idx - line_start_idx
  /\ pos.col32 <= pos.col16
  /\ pos.col16 <= pos.col8
  /\ pos.line = NewlinesBefore(idx)
  /\ line_start_idx = LineStartIdx(pos.line)

\* on one line no column decreases; the line number never decreases
C14_Step ==
  /\ pos'.line >= pos.line
  /\ pos'.line = pos.line =>
       /\ pos'.col8 >= pos.col8
       /\ pos'.col16 >= pos.col16
       /\ pos'.col32 >= pos.col32

\* C14: in every state of a parse col8 = idx - line_start_idx and
\* col32 <= col16 <= col8; no column decreases while the cursor stays on one
\* line; each `\n` consumed adds exactly 1 to line, and resets the columns to
\* 0 with line_start_idx = idx.
C14_CursorLockstep == [](C14_Columns) /\ [][C14_Step]_vars

\* the cursor stands mid-line after a 4-byte and a 2-byte character
C14_Witness ==
  /\ input = InWide
  /\ pos.line = 1
  /\ pos.col32 = 4
  /\ pos.col16 = 5
  /\ pos.col8 = 8
  /\ idx = line_start_idx + 8

\* ------------------------------------------- one block among blank lines
\* C15: blank or whitespace-only lines around one well-formed block (an
\* indented header with bare args ending in `{`, body text lines, an indented
\* line holding only `}`) parse without diagnostic into exactly one top-level
\* node, the Block, whose only child is the Text of the body lines: neither
\* the whitespace before the closer, nor the empty rest of its line, nor the
\* blank lines produce a Text node.
C15_BlockAmongBlankLines ==
  (Done /\ input \in BlockInputs \cup {InTestBlock}) =>
    /\ diagnostics = <<>>
    /\ Len(Doc.nodes) = 1
    /\ Doc.nodes[1].kind = "Block"
    /\ Len(Doc.nodes[1].args) >= 2
    /\ Len(Doc.nodes[1].nodes) = 1
    /\ Doc.nodes[1].nodes[1].kind = "Text"
    /\ \A k \in DOMAIN Doc.nodes[1].nodes[1].lines :
         Trim(Doc.nodes[1].nodes[1].lines[k].value) # <<>>

C15_Witness ==
  /\ Done
  /\ input = InTestBlock
  /\ Len(Doc.nodes) = 1
  /\ IsBlockNamed(Doc.nodes[1], <<"b", "l", "o", "c", "k">>)
  /\ Len(Doc.nodes[1].nodes[1].lines) = 1

\* ------------------------------------------- the anchor of a missing closer
\* index of the final line that holds input
LastInputLine ==
  IF input # <<>> /\ input[Len(input)] = "\n"
  THEN saturating_sub(LineCount, 2)
  ELSE LineCount - 1

\* C20: the span of a "missing closing delimiter" Error lies on the final
\* line holding input, whether or not the input ends with a newline.
C20_MissingCloserAnchor ==
  \A i \in DOMAIN diagnostics :
    diagnostics[i].message = "missing closing delimiter" =>
      /\ diagnostics[i].span.start.line = LastInputLine
      /\ diagnostics[i].span.end.line = LastInputLine

\* ------------------------------------------------------------- headings
\* the lines of a rendered text
RECURSIVE SplitLines(_)
SplitLines(s) ==
  IF s = <<>> THEN <<>>
  ELSE IF Find(s, <<"\n">>) = None THEN <<s>>
  ELSE <<Slice(s, 0, Unwrap(Find(s, <<"\n">>)))>>
         \o SplitLines(Slice(s, Unwrap(Find(s, <<"\n">>)) + 1, Len(s)))

IsMarkdownHeading(l) == l # <<>> /\ l[1] = "#"

IsHtmlHeading(l) == StartsWith(l, <<"<", "h">>)

\* the parts of a Document in rendering order, each with the number d of
\* enclosing parts counted from the root or from the nearest enclosing list
RECURSIVE PartsOf(_, _)
PartsOf(nodes, d) ==
  IF nodes = <<>> THEN <<>>
  ELSE (IF Head(nodes).kind = "Text" THEN <<>>
        ELSE IF Head(nodes).name = Lit.part
        THEN <<[d |-> d, args |-> Head(nodes).args]>>
               \o PartsOf(Head(nodes).nodes, d + 1)
        ELSE IF Head(nodes).name = Lit.list
        THEN PartsOf(Head(nodes).nodes, 0)
        ELSE PartsOf(Head(nodes).nodes, d))
       \o PartsOf(Tail(nodes), d)

ClaimedLevel(d) == IF d + 1 <= 6 THEN d + 1 ELSE 6

ClaimedTitle(args) == IF args = <<>> THEN Lit.part ELSE HelloWorld

MarkdownHeading(p) ==
  Repeat("#", ClaimedLevel(p.d)) \o <<" ">> \o ClaimedTitle(p.args)

HtmlHeading(p) ==
  <<"<", "h", Ascii.digits[ClaimedLevel(p.d) + 1], ">">>
    \o ClaimedTitle(p.args)
    \o <<"<", "/", "h", Ascii.digits[ClaimedLevel(p.d) + 1], ">">>

HeadingsAre(out, IsHeading(_), Heading(_), parts) ==
  SelectSeq(SplitLines(out), IsHeading)
    = [i \in DOMAIN parts |-> Heading(parts[i])]

\* C16: in both renderers the heading of a part is of level min(d + 1, 6),
\* d being the number of enclosing parts counted from the root or from the
\* nearest enclosing list; blocks of other names leave d alone; the title is
\* the args joined by single spaces, or `part` without args: a top-level
\* `@part Hello World` renders `# Hello World` and `<h1>Hello World</h1>`.
C16_HeadingLevels ==
  (Done /\ Doc \in HeadingDocs) =>
    /\ markdown # None =>
         HeadingsAre(Unwrap(markdown), IsMarkdownHeading, MarkdownHeading,
                     PartsOf(Doc.nodes, 0))
    /\ html # None =>
         HeadingsAre(Unwrap(html), IsHtmlHeading, HtmlHeading,
                     PartsOf(Doc.nodes, 0))
    /\ (markdown # None /\ Doc = DocSiblings) =>
         SplitLines(Unwrap(markdown))[1]
           = <<"#", " ">> \o HelloWorld
    /\ (html # None /\ Doc = DocSiblings) =>
         SplitLines(Unwrap(html))[3]
           = <<"<", "h", "1", ">">> \o HelloWorld \o <<"<", "/", "h", "1", ">">>

\* seven parts nested in one another are rendered: the innermost, with six
\* enclosing parts, is of level 6 like the one around it
C16_Witness ==
  /\ Done
  /\ markdown # None
  /\ html # None
  /\ Doc \in TowerDocs
  /\ Len(PartsOf(Doc.nodes, 0)) = 7
  /\ Len(SelectSeq(SplitLines(Unwrap(markdown)), IsMarkdownHeading)) = 7
  /\ Len(SelectSeq(SplitLines(Unwrap(html)), IsHtmlHeading)) = 7

\* -------------------------------------------------------- html escaping
Contains(s, p) == Find(s, p) # None

\* a string with each character of HTML markup replaced by a harmless one
\* that the sanitizer drops
Neutral(s) == [i \in DOMAIN s |-> IF s[i] \in HtmlSpecials THEN "?" ELSE s[i]]

NeutralAttrs(attrs) ==
  [i \in DOMAIN attrs |->
     Attribute(Neutral(attrs[i].key), Neutral(attrs[i].value), attrs[i].span)]

NeutralLines(lines) ==
  [i \in DOMAIN lines |-> [lines[i] EXCEPT !.value = Neutral(@)]]

RECURSIVE NeutralNodes(_)
NeutralNodes(nodes) ==
  [i \in DOMAIN nodes |->
     IF nodes[i].kind = "Text"
     THEN TextNode(NeutralLines(nodes[i].lines))
     ELSE Block(Neutral(nodes[i].name),
                [k \in DOMAIN nodes[i].args |-> Neutral(nodes[i].args[k])],
                NeutralAttrs(nodes[i].params), NeutralAttrs(nodes[i].attrs),
                NeutralNodes(nodes[i].nodes))]

\* the Document of the same shape whose content holds no markup character
NeutralDoc(doc) == Document(NeutralAttrs(doc.attrs), NeutralNodes(doc.nodes))

HtmlEntities == {Lit.amp, Lit.lt, Lit.gt, Lit.quot, Lit.apos}

\* every `&` of the output begins one of the five entities
AmpersandsAreEntities(out) ==
  \A i \in DOMAIN out :
    out[i] = "&" =>
      \E e \in HtmlEntities : Slice(out, i - 1, i - 1 + Len(e)) = e

\* the keys and names a Document holds
RECURSIVE IdentsIn(_)
IdentsIn(nodes) ==
  UNION {IF nodes[i].kind = "Text" THEN {}
         ELSE {nodes[i].name}
                \cup {nodes[i].params[k].key : k \in DOMAIN nodes[i].params}
                \cup {nodes[i].attrs[k].key : k \in DOMAIN nodes[i].attrs}
                \cup IdentsIn(nodes[i].nodes) : i \in DOMAIN nodes}

IdentChars ==
  {Ascii.lower[i] : i \in 1..26} \cup {Ascii.digits[i] : i \in 1..10}
    \cup {"_", "-"}

\* C17: in the output of render_html every character that comes from the
\* Document's content is entity-escaped for & < > " ', and every key and block
\* name is reduced to characters of [a-z0-9_-]: the output holds exactly as
\* many raw < > " ' as that of the same Document with harmless content, and
\* each & in it begins an entity.
C17_HtmlEscaped ==
  (Done /\ html # None /\ Doc \in HostileDocs) =>
    /\ \A ch \in {"<", ">", "\"", "'"} :
         CountOf(Unwrap(html), ch) = CountOf(render_html(NeutralDoc(Doc)), ch)
    /\ AmpersandsAreEntities(Unwrap(html))
    /\ \A id \in IdentsIn(Doc.nodes) :
         \A k \in DOMAIN sanitize_html_ident(id) :
           sanitize_html_ident(id)[k] \in IdentChars
    /\ Contains(Unwrap(html),
                Lit.data_param \o <<"k", "-", "-", "-", "k", "_", "-", "9">>
                  \o Lit.eq_quote)
    /\ Doc.nodes[2].name # Lit.code =>
         Contains(Unwrap(html), Lit.block_class \o <<"b", "x", "\"">>)

\* a Document with a single quote in its texts, titles, lang and values is
\* rendered, and the quote is in the output as an entity
C17_Witness ==
  /\ Done
  /\ html # None
  /\ Doc \in HostileDocs
  /\ Doc.nodes[1].lines[1].value = HostileValue("'")
  /\ Contains(Unwrap(html), <<"a">> \o Lit.apos \o <<"b">>)

\* ------------------------------------------------------- comment lines
CapitalLetters == {Ascii.upper[i] : i \in 1..26}

\* the capital letters of an output, in order
Letters(out) == SelectSeq(out, LAMBDA c : c \in CapitalLetters)

RECURSIVE LineValues(_, _)
LineValues(lines, is_comment) ==
  IF lines = <<>> THEN <<>>
  ELSE (IF Head(lines).is_comment = is_comment THEN Head(lines).value
        ELSE <<>>) \o LineValues(Tail(lines), is_comment)

\* the values of the comment (or the non-comment) lines of all Text nodes,
\* in document order
RECURSIVE ValuesIn(_, _)
ValuesIn(nodes, is_comment) ==
  IF nodes = <<>> THEN <<>>
  ELSE (IF Head(nodes).kind = "Text"
        THEN LineValues(Head(nodes).lines, is_comment)
        ELSE ValuesIn(Head(nodes).nodes, is_comment))
         \o ValuesIn(Tail(nodes), is_comment)

\* the values of the non-comment lines of the Text nodes, in document
\* order, leaving out what lies below a Block that is a child of a `code`
\* block
RECURSIVE ValuesOutsideCode(_, _)
ValuesOutsideCode(nodes, in_code) ==
  IF nodes = <<>> THEN <<>>
  ELSE (IF Head(nodes).kind = "Text"
        THEN LineValues(Head(nodes).lines, FALSE)
        ELSE IF in_code THEN <<>>
        ELSE ValuesOutsideCode(Head(nodes).nodes,
                               Head(nodes).name = Lit.code))
         \o ValuesOutsideCode(Tail(nodes), in_code)

\* the output holds the values `rendered`, each once and in this order, and
\* the value of no comment line
RendersInOrder(out, nodes, rendered) ==
  /\ Letters(out) = rendered
  /\ \A i \in DOMAIN ValuesIn(nodes, TRUE) :
       CountOf(out, ValuesIn(nodes, TRUE)[i]) = 0

\* C18 as stated: no comment line contributes its value to the output of
\* render_markdown or render_html, and every non-comment line of every Text
\* node of the Document is rendered exactly once, in document order.
C18_EveryLineRenderedOnce ==
  (Done /\ Doc \in CommentDocs) =>
    /\ markdown # None =>
         RendersInOrder(Unwrap(markdown), Doc.nodes,
                        ValuesIn(Doc.nodes, FALSE))
    /\ html # None =>
         RendersInOrder(Unwrap(html), Doc.nodes, ValuesIn(Doc.nodes, FALSE))

\* C18: no comment line contributes its value to the output of
\* render_markdown or render_html, be it in a plain Text node, in a `list`
\* block or in a `code` block; every non-comment line is rendered exactly
\* once, in document order, except the lines below a Block that is a child
\* of a `code` block, which are not rendered: a `code` block emits the lines
\* of its direct Text children only.
C18_CommentsNotRendered ==
  (Done /\ Doc \in CommentDocs) =>
    /\ markdown # None =>
         RendersInOrder(Unwrap(markdown), Doc.nodes,
                        ValuesOutsideCode(Doc.nodes, FALSE))
    /\ html # None =>
         RendersInOrder(Unwrap(html), Doc.nodes,
                        ValuesOutsideCode(Doc.nodes, FALSE))

\* both outputs exist for a Document with a comment between the lines of a
\* plain Text node, comments in the Text children of a `code` block, and a
\* Block below the `code` block whose non-comment line I is in neither output
C18_Witness ==
  /\ Done
  /\ markdown # None
  /\ html # None
  /\ Doc \in CommentDocs
  /\ Doc.nodes[2].name = Lit.code
  /\ Doc.nodes[2].nodes[2].kind = "Block"
  /\ ~Doc.nodes[2].nodes[2].nodes[1].lines[2].is_comment
  /\ CountOf(Unwrap(markdown), "I") = 0
  /\ CountOf(Unwrap(html), "I") = 0
  /\ ~Doc.nodes[1].lines[1].is_comment
  /\ Doc.nodes[1].lines[2].is_comment
  /\ ~Doc.nodes[1].lines[3].is_comment
  /\ Doc.nodes[2].nodes[1].lines[1].is_comment
  /\ ~Doc.nodes[2].nodes[1].lines[2].is_comment
  /\ Letters(Unwrap(markdown)) = <<"A", "C", "E", "G">>

\* ---------------------------------------------------------- list style
\* the lines of an output that are not empty
NonEmptyLines(out) == SelectSeq(SplitLines(out), LAMBDA l : l # <<>>)

\* the markers of a list: its param keys and its bare args
MarkersOf(block) ==
  {block.params[i].key : i \in DOMAIN block.params}
    \cup {block.args[i] : i \in DOMAIN block.args}

ClaimedLineStyle(block) ==
  <<"l", "i", "n", "e">> \in MarkersOf(block)
    /\ <<"b", "u", "l", "l", "e", "t">> \notin MarkersOf(block)

MarkdownItem(block, v) ==
  IF ClaimedLineStyle(block) THEN v ELSE <<"-", " ">> \o v

HtmlItem(block, v) ==
  IF ClaimedLineStyle(block)
  THEN <<"<", "d", "i", "v", " ", "c", "l", "a", "s", "s", "=", "\"", "l",
         "m", "m", "-", "l", "i", "n", "e", "\"", ">">> \o v
         \o <<"<", "/", "d", "i", "v", ">">>
  ELSE <<"<", "l", "i", ">">> \o v \o <<"<", "/", "l", "i", ">">>

\* C19: a `list` block is rendered line-style exactly when `line` is among
\* its param keys or bare args and `bullet` is not, and bullet-style in every
\* other case; each non-comment line of its direct Text children is one item
\* (`- value` / <li> for bullet, the bare value / <div class="lmm-line"> for
\* line), and a child Block is rendered as an ordinary block, not as an item.
C19_ListStyle ==
  (Done /\ Doc \in ListDocs) =>
    /\ markdown # None =>
         NonEmptyLines(Unwrap(markdown))
           = <<MarkdownItem(Doc.nodes[1], <<"P">>),
               MarkdownItem(Doc.nodes[1], <<"R">>),
               <<"#", " ", "t">>,
               <<"S">>,
               MarkdownItem(Doc.nodes[1], <<"T">>)>>
    /\ html # None =>
         /\ Len(NonEmptyLines(Unwrap(html))) = 11
         /\ StartsWith(NonEmptyLines(Unwrap(html))[2],
                       IF ClaimedLineStyle(Doc.nodes[1])
                       THEN <<"<", "d", "i", "v", " ", "c", "l", "a", "s", "s",
                              "=", "\"", "l", "m", "m", "-", "l", "i", "n",
                              "e", "s", "\"">>
                       ELSE <<"<", "u", "l", " ", "c", "l", "a", "s", "s", "=",
                              "\"", "l", "m", "m", "-", "l", "i", "s", "t",
                              "\"">>)
         /\ SubSeq(NonEmptyLines(Unwrap(html)), 3, 9)
              = <<HtmlItem(Doc.nodes[1], <<"P">>),
                  HtmlItem(Doc.nodes[1], <<"R">>),
                  <<"<", "s", "e", "c", "t", "i", "o", "n", " ", "c", "l",
                    "a", "s", "s", "=", "\"", "l", "m", "m", "-", "p", "a",
                    "r", "t", "\"", ">">>,
                  <<"<", "h", "1", ">", "t", "<", "/", "h", "1", ">">>,
                  <<"<", "p", ">", "S", "<", "/", "p", ">">>,
                  <<"<", "/", "s", "e", "c", "t", "i", "o", "n", ">">>,
                  HtmlItem(Doc.nodes[1], <<"T">>)>>
         /\ NonEmptyLines(Unwrap(html))[10]
              = IF ClaimedLineStyle(Doc.nodes[1])
                THEN <<"<", "/", "d", "i", "v", ">">>
                ELSE <<"<", "/", "u", "l", ">">>

\* both outputs exist for a list with `line` among its args and `bullet`
\* among its param keys: the items are bullets
C19_Witness ==
  /\ Done
  /\ markdown # None
  /\ html # None
  /\ Doc \in ListDocs
  /\ Doc.nodes[1].args = <<Lit.line>>
  /\ Doc.nodes[1].params = <<Param(Lit.bullet, <<>>)>>
  /\ NonEmptyLines(Unwrap(markdown))[1] = <<"-", " ", "P">>
  /\ NonEmptyLines(Unwrap(html))[3] = <<"<", "l", "i", ">", "P", "<", "/", "l", "i", ">">>

\* ------------------------------------------------- the end of a block header
\* number of characters of s up to and including its first `{` that is not
\* part of a `{{` pair, scanning from character i; 0 when there is none
RECURSIVE ThroughUnescapedBrace(_, _)
ThroughUnescapedBrace(s, i) ==
  IF i > Len(s) THEN 0
  ELSE IF s[i] # "{" THEN ThroughUnescapedBrace(s, i + 1)
  ELSE IF i < Len(s) /\ s[i + 1] = "{" THEN ThroughUnescapedBrace(s, i + 2)
  ELSE i

\* C21: the span of every Block runs from its `@` to the position just past
\* the next `{` that is not part of an escaped `{{` pair: a `{{` inside the
\* header does not end the header.
C21_HeaderEndsAtUnescapedBrace ==
  Done =>
    \A b \in BlocksIn(Doc.nodes) :
      /\ input[IdxOf(b.span.start) + 1] = "@"
      /\ IdxOf(b.span.end) =
           IdxOf(b.span.start)
             + ThroughUnescapedBrace(
                 Slice(input, IdxOf(b.span.start), Len(input)), 1)

\* ------------------------------------------------------ the pending text
\* the node sequences of a tree: the one given and that of every Block in it
NodeSeqsIn(nodes) == {nodes} \cup {b.nodes : b \in BlocksIn(nodes)}

TextNodesIn(nodes) ==
  UNION {{ns[i] : i \in {j \in DOMAIN ns : ns[j].kind = "Text"}} :
           ns \in NodeSeqsIn(nodes)}

\* the lines of a Text node are in source order
InSourceOrder(lines) ==
  \A k \in 1..(Len(lines) - 1) :
    /\ PosLeq(lines[k].span.start, lines[k + 1].span.start)
    /\ lines[k].span.start # lines[k + 1].span.start

\* two Text nodes follow one another only across a `$` line
SplitOnlyByDollar(ns) ==
  \A i \in 1..(Len(ns) - 1) :
    (ns[i].kind = "Text" /\ ns[i + 1].kind = "Text") =>
      \E n \in (ns[i].lines[Len(ns[i].lines)].span.start.line + 1)
                 ..(ns[i + 1].lines[1].span.start.line - 1) :
        Trim(SourceLine(n)) = <<"$">>

\* every Text node built so far holds a line, in source order; in the result
\* adjacent Text nodes are separated by a verbatim delimiter
C22_TextNodes ==
  /\ \A f \in DOMAIN stack : \A t \in TextNodesIn(stack[f].nodes) :
       t.lines # <<>> /\ InSourceOrder(t.lines)
  /\ Done =>
       /\ \A t \in TextNodesIn(Doc.nodes) :
            t.lines # <<>> /\ InSourceOrder(t.lines)
       /\ \A ns \in NodeSeqsIn(Doc.nodes) : SplitOnlyByDollar(ns)

\* lines are the pending lines bufs, in their order and with their comment
\* flags, followed by at most extra lines more
HoldsBuffer(lines, bufs, extra) ==
  /\ Len(lines) >= Len(bufs)
  /\ Len(lines) <= Len(bufs) + extra
  /\ \A k \in DOMAIN bufs :
       /\ lines[k].is_comment = bufs[k].is_comment
       /\ lines[k].indent = bufs[k].indent
       /\ lines[k].span = bufs[k].span

\* after is before, followed by one Text node of the pending lines if any
Flushed(after, before, bufs, extra) ==
  /\ Len(after) >= Len(before)
  /\ SubSeq(after, 1, Len(before)) = before
  /\ IF Len(after) = Len(before) THEN bufs = <<>>
     ELSE /\ Len(after) = Len(before) + 1
          /\ after[Len(after)].kind = "Text"
          /\ after[Len(after)].lines # <<>>
          /\ HoldsBuffer(after[Len(after)].lines, bufs, extra)

\* the closing delimiter of the innermost block is in the rest of the line
CloserAhead ==
  /\ Top.closing # None
  /\ Find(Slice(input, idx,
                IF CursorLine < LineCount /\ idx = line_start_idx
                THEN idx + Len(SourceLine(pos.line))
                ELSE line_start_idx + Len(SourceLine(pos.line))),
          Unwrap(Top.closing)) # None

\* a step of the node loop keeps the pending lines, adding at most one, or
\* it flushes them: before a block, before a verbatim section, at the closing
\* delimiter or at end of input
C22_Step ==
  (pc = "nodes" /\ pc' # "aborted") =>
    IF Len(stack') = Len(stack) + 1
    THEN /\ StartsWith(TrimStart(SourceLine(pos.line)), <<"@">>)
         /\ Flushed(stack'[Len(stack)].nodes, Top.nodes, Top.text_buf, 0)
         /\ stack'[Len(stack)].text_buf = <<>>
    ELSE IF pc' = "dollar"
    THEN /\ Trim(SourceLine(pos.line)) = <<"$">>
         /\ Flushed(Top'.nodes, Top.nodes, Top.text_buf, 0)
         /\ Top'.text_buf = <<>>
    ELSE IF Len(stack') = Len(stack) - 1
    THEN /\ idx >= Len(input) \/ CloserAhead
         /\ IF Len(stack) = 1
            THEN Flushed(Unwrap(document').nodes, Top.nodes, Top.text_buf, 0)
            ELSE Flushed(Top'.nodes[Len(Top'.nodes)].nodes, Top.nodes,
                         Top.text_buf, IF idx >= Len(input) THEN 0 ELSE 1)
    ELSE /\ Len(stack') = Len(stack)
         /\ idx < Len(input)
         /\ Top'.nodes = Top.nodes
         /\ Len(Top'.text_buf) >= Len(Top.text_buf)
         /\ Len(Top'.text_buf) <= Len(Top.text_buf) + 1
         /\ SubSeq(Top'.text_buf, 1, Len(Top.text_buf)) = Top.text_buf
         /\ (idx = line_start_idx /\ Trim(SourceLine(pos.line)) = <<>>)
              => stack' = stack

\* C22: in one node sequence the text and comment lines that follow one
\* another, blank lines between them included, are buffered into one Text
\* node in source order with their comment flags; the buffer is flushed only
\* before a block, before a verbatim section, at the closing delimiter and at
\* end of input; every Text node holds at least one TextLine.
C22_TextBuffering == [](C22_TextNodes) /\ [][C22_Step]_vars

\* a text line, a blank line and a comment line have become one Text node
C22_Witness ==
  /\ Done
  /\ \E t \in TextNodesIn(Doc.nodes) :
       /\ Len(t.lines) = 2
       /\ ~t.lines[1].is_comment
       /\ t.lines[2].is_comment
       /\ t.lines[2].span.start.line = t.lines[1].span.start.line + 2
       /\ Trim(SourceLine(t.lines[1].span.start.line + 1)) = <<>>

\* ------------------------------------------------------ trailing content
TrailingContentDiags ==
  {i \in DOMAIN diagnostics :
     diagnostics[i].message = "unexpected trailing content"}

\* no such diagnostic is ever pushed, and a result is returned with the
\* cursor at end of input
C23_AtEnd ==
  /\ TrailingContentDiags = {}
  /\ Done => idx = Len(input)

\* the top-level node loop returns only with the cursor at end of input, and
\* what follows it moves the cursor no further and pushes no diagnostic
C23_Step ==
  (pc = "nodes" /\ pc' = "done") =>
    /\ Len(stack) = 1
    /\ Top.closing = None
    /\ idx = Len(input)
    /\ idx' = idx
    /\ diagnostics' = diagnostics

\* C23: the top-level node loop returns only when the cursor is at end of
\* input, so parse_document never emits "unexpected trailing content".
C23_NoTrailingContent == [](C23_AtEnd) /\ [][C23_Step]_vars

\* a parse has returned for an input with a stray `}` at the top level that
\* is followed by more lines
C23_Witness ==
  /\ Done
  /\ \E n \in 0..(LineCount - 2) :
       /\ Find(SourceLine(n), <<"}">>) # None
       /\ \E k \in DOMAIN Doc.nodes :
            /\ Doc.nodes[k].kind = "Text"
            /\ \E j \in DOMAIN Doc.nodes[k].lines :
                 /\ Doc.nodes[k].lines[j].span.start.line = n
                 /\ Find(Doc.nodes[k].lines[j].value, <<"}">>) # None
       /\ Trim(SourceLine(n + 1)) # <<>>
  /\ idx = Len(input)

\* ------------------------------------------- the diagnostics of the editor
\* every notification was dispatched and every handler has returned
AllReturned ==
  /\ notifications = <<>>
  /\ \A h \in DOMAIN handlers : handlers[h].at = "returned"

\* the notification the client was sent last for the URI u
LastPublished(u) ==
  published[CHOOSE i \in DOMAIN published :
              /\ published[i].uri = u
              /\ \A j \in DOMAIN published :
                   published[j].uri = u => j <= i]

\* C24: once all did_open and did_change handlers have returned, the
\* diagnostics published last for a URI are those computed from the text
\* stored for that URI, whatever the interleaving of the handlers at their
\* await points.
C24_LatestDiagnosticsPublished ==
  AllReturned =>
    \A u \in DOMAIN documents :
      /\ \E i \in DOMAIN published : published[i].uri = u
      /\ \E h \in DOMAIN handlers :
           /\ handlers[h].uri = u
           /\ handlers[h].text = documents[u]
           /\ handlers[h].diagnostics = LastPublished(u).diagnostics

====
